---- MODULE Spec2Model ----
(***************************************************************************)
(* Model of the cv2interview backend: the CV analysis pipeline             *)
(* (app/agent/cv_agent.py), the three generation tools and their response  *)
(* normalizers (app/tools/*.py) and the PDF text extractor.                *)
(*                                                                         *)
(* Text is a sequence of tokens.  A token is a brace, a newline, a space,  *)
(* a word, or a JSON member ("key": value) whose value is kept as a JSON   *)
(* value.  json.loads / json.dumps are modelled on these sequences, so     *)
(* parsing drops whitespace and junk around the braces and serialising     *)
(* produces the indented layout json.dumps(indent=2) produces.             *)
(***************************************************************************)
EXTENDS Integers, Sequences, FiniteSets, TLC

(***************************************************************************)
(* Bounds of the model.                                                    *)
(***************************************************************************)
\* longest raw text handed to a normalizer in SpecNormalize
MaxLen == 4

(***************************************************************************)
(* Python's logging levels.  The tools call                                *)
(*   logger.info(msg, processing_time=..., ...)                            *)
(*   logger.warning(msg, error=...)                                        *)
(*   logger.error(msg, error=...)                                          *)
(* on a logging.getLogger(__name__) logger.  logging.Logger.info/warning/  *)
(* error forward their keyword arguments to Logger._log when the level is  *)
(* enabled, and Logger._log accepts only exc_info, extra, stack_info and   *)
(* stacklevel: the call raises TypeError.  When the level is not enabled   *)
(* the call returns before _log is reached.                                *)
(***************************************************************************)
INFO == 20
WARNING == 30
ERROR == 40
CRITICAL == 50

\* The effective level of the tools' loggers: INFO once app/main.py has run
\* logging.basicConfig(level=logging.INFO); WARNING, Python's default, when
\* the agent is imported without app.main; CRITICAL when the embedding
\* process has silenced logging (logging.disable / root level CRITICAL).
LogLevels == {INFO, WARNING, CRITICAL}

\* logger.<level>(msg, **kwargs) raises TypeError iff the level is enabled
LogKwRaises(level, threshold) == level >= threshold

(***************************************************************************)
(* JSON values.  Every value is a record of one shape:                     *)
(*   ty  : "null" | "bool" | "int" | "float" | "str" | "list" | "dict"     *)
(*   n   : the number (bool 0/1, int as is, float in hundredths)           *)
(*   txt : the text of a str                                               *)
(*   xs  : the items of a list or dict; an item is a tuple of texts:       *)
(*         a question object is <<question, category, difficulty,          *)
(*         purpose, expected_answer_type>>, any other list element is a    *)
(*         1-tuple, a dict entry is <<key, v1, v2, ...>>                   *)
(***************************************************************************)
JNull == [ty |-> "null", n |-> 0, txt |-> <<>>, xs |-> <<>>]
JBool(b) == [ty |-> "bool", n |-> IF b THEN 1 ELSE 0, txt |-> <<>>, xs |-> <<>>]
JInt(i) == [ty |-> "int", n |-> i, txt |-> <<>>, xs |-> <<>>]
JFloat(h) == [ty |-> "float", n |-> h, txt |-> <<>>, xs |-> <<>>]
JStr(t) == [ty |-> "str", n |-> 0, txt |-> t, xs |-> <<>>]
JList(items) == [ty |-> "list", n |-> 0, txt |-> <<>>, xs |-> items]
JDict(items) == [ty |-> "dict", n |-> 0, txt |-> <<>>, xs |-> items]

(***************************************************************************)
(* Tokens.                                                                 *)
(***************************************************************************)
LB == [c |-> "lbrace", s |-> "{", v |-> JNull]
RB == [c |-> "rbrace", s |-> "}", v |-> JNull]
NL == [c |-> "nl", s |-> "\n", v |-> JNull]
SP == [c |-> "sp", s |-> " ", v |-> JNull]
Word(w) == [c |-> "word", s |-> w, v |-> JNull]
Member(key, val) == [c |-> "member", s |-> key, v |-> val]
\* marks a key a question object does not have
Absent == [c |-> "absent", s |-> "", v |-> JNull]

IsSpace(tok) == tok.c \in {"nl", "sp"}

\* the words of the model that hold the substring "Error"
ErrorWords ==
    {"Error", "API Error", "Error: PDF file not found at",
     "Error during PDF to Markdown conversion:", "Error extracting profile:",
     "Error while generating career recommendations:", "Error generating questions:"}

RECURSIVE TextHasError(_)
RECURSIVE ItemsHaveError(_)
RECURSIVE ItemHasError(_)
\* "Error" in text
TextHasError(t) ==
    IF t = <<>> THEN FALSE
    ELSE LET tok == Head(t) IN
         \/ (tok.c = "word" /\ tok.s \in ErrorWords)
         \/ (tok.c = "member" /\ (TextHasError(tok.v.txt) \/ ItemsHaveError(tok.v.xs)))
         \/ TextHasError(Tail(t))
ItemsHaveError(items) ==
    IF items = <<>> THEN FALSE
    ELSE ItemHasError(Head(items)) \/ ItemsHaveError(Tail(items))
ItemHasError(item) ==
    IF item = <<>> THEN FALSE
    ELSE TextHasError(Head(item)) \/ ItemHasError(Tail(item))

(***************************************************************************)
(* str methods.                                                            *)
(***************************************************************************)
RECURSIVE LStrip(_)
LStrip(t) == IF t # <<>> /\ IsSpace(Head(t)) THEN LStrip(Tail(t)) ELSE t

RECURSIVE RStrip(_)
RStrip(t) ==
    IF t # <<>> /\ IsSpace(t[Len(t)]) THEN RStrip(SubSeq(t, 1, Len(t) - 1)) ELSE t

\* str.strip()
Strip(t) == RStrip(LStrip(t))

\* str.find('{'): the 1-based position of the first '{', 0 when there is none
\* (Python's -1)
FindLB(t) ==
    IF \E i \in 1..Len(t) : t[i].c = "lbrace"
    THEN CHOOSE i \in 1..Len(t) : t[i].c = "lbrace" /\ \A j \in 1..(i - 1) : t[j].c # "lbrace"
    ELSE 0

\* str.rfind('}'): the 1-based position of the last '}', 0 when there is none
RFindRB(t) ==
    IF \E i \in 1..Len(t) : t[i].c = "rbrace"
    THEN CHOOSE i \in 1..Len(t) : t[i].c = "rbrace" /\ \A j \in (i + 1)..Len(t) : t[j].c # "rbrace"
    ELSE 0

RECURSIVE SplitLines(_)
\* str.split('\n'): always at least one line
SplitLines(t) ==
    IF \E i \in 1..Len(t) : t[i].c = "nl"
    THEN LET i == CHOOSE i \in 1..Len(t) : t[i].c = "nl" /\ \A j \in 1..(i - 1) : t[j].c # "nl"
         IN <<SubSeq(t, 1, i - 1)>> \o SplitLines(SubSeq(t, i + 1, Len(t)))
    ELSE <<t>>

\* seq[:n]
Take(s, n) == SubSeq(s, 1, IF Len(s) < n THEN Len(s) ELSE n)

(***************************************************************************)
(* json.loads and json.dumps.  A parsed object (a Python dict) is the      *)
(* sequence of its members in insertion order, each key once.              *)
(***************************************************************************)
DictHas(d, key) == \E i \in 1..Len(d) : d[i].s = key

DictGet(d, key) == d[CHOOSE i \in 1..Len(d) : d[i].s = key].v

\* d[key] = val: an existing key keeps its place, a new key goes last
DictSet(d, key, val) ==
    IF DictHas(d, key)
    THEN [i \in 1..Len(d) |-> IF d[i].s = key THEN Member(key, val) ELSE d[i]]
    ELSE Append(d, Member(key, val))

RECURSIVE DictOfMembers(_, _)
DictOfMembers(toks, d) ==
    IF toks = <<>> THEN d
    ELSE LET tok == Head(toks) IN
         DictOfMembers(Tail(toks), IF tok.c = "member" THEN DictSet(d, tok.s, tok.v) ELSE d)

\* whether json.loads(js) returns an object: js is '{', members and
\* whitespace only, '}'
JsonObjectParses(js) ==
    /\ Len(js) >= 2
    /\ js[1].c = "lbrace"
    /\ js[Len(js)].c = "rbrace"
    /\ \A i \in 2..(Len(js) - 1) : js[i].c \in {"member", "nl", "sp"}

\* json.loads(js) for a js that parses as an object
JsonLoadsObject(js) == DictOfMembers(SubSeq(js, 2, Len(js) - 1), <<>>)

RECURSIVE DumpMembers(_)
DumpMembers(d) ==
    IF d = <<>> THEN <<>>
    ELSE <<SP, SP, Head(d), NL>> \o DumpMembers(Tail(d))

\* json.dumps(d, indent=2)
JsonDumps(d) == IF d = <<>> THEN <<LB, RB>> ELSE <<LB, NL>> \o DumpMembers(d) \o <<RB>>

\* words that are JSON documents by themselves
JsonLiteralWords == {"null"}

(***************************************************************************)
(* What a call does: it returns a text, or it raises.  For a raise, exc is *)
(* the exception class and text is str(e).                                 *)
(***************************************************************************)
Ret(t) == [k |-> "ret", exc |-> "", text |-> t]
Raise(kind, msg) == [k |-> "raise", exc |-> kind, text |-> msg]

\* str(e) of the TypeError Logger._log raises for the keyword kw
LogKwMessage(kw) == <<Word("Logger._log() got an unexpected keyword argument"), SP, Word(kw)>>

(***************************************************************************)
(* float(x) as _parse_response uses it.                                    *)
(***************************************************************************)
\* str -> hundredths, for the numeric strings of the model
NumericWords == {"5.5", "12"}
WordToHundredths(w) == IF w = "5.5" THEN 550 ELSE 1200

FloatAccepts(v) ==
    \/ v.ty \in {"int", "float", "bool"}
    \/ (v.ty = "str" /\ Len(Strip(v.txt)) = 1 /\ Strip(v.txt)[1].c = "word"
          /\ Strip(v.txt)[1].s \in NumericWords)

FloatOf(v) ==
    IF v.ty = "float" THEN v
    ELSE IF v.ty \in {"int", "bool"} THEN JFloat(v.n * 100)
    ELSE JFloat(WordToHundredths(Strip(v.txt)[1].s))

(***************************************************************************)
(* The normalizers: the three tools' _parse_response.  Each takes the raw  *)
(* response text and the loggers' effective level.                         *)
(***************************************************************************)
\* the except clause of the profile and recommendation normalizers:
\* logger.warning("Failed to parse structured response", error=str(e))
\* and then "return response_text"
ParseFallback(response_text, threshold) ==
    IF LogKwRaises(WARNING, threshold)
    THEN Raise("TypeError", LogKwMessage("'error'"))
    ELSE Ret(response_text)

\* json_str = response_text[start_idx:end_idx]; an empty slice when the last
\* '}' comes before the first '{'
BoundedSubstring(response_text) ==
    SubSeq(response_text, FindLB(response_text), RFindRB(response_text))

\* the try block reaches json.loads and json.loads returns
ParsesAsObject(response_text) ==
    /\ FindLB(response_text) # 0
    /\ RFindRB(response_text) # 0
    /\ JsonObjectParses(BoundedSubstring(response_text))

RECURSIVE InjectDefaults(_, _, _)
\* for field in required_fields: if field not in parsed_data: parsed_data[field] = default
InjectDefaults(d, required, default) ==
    IF required = <<>> THEN d
    ELSE InjectDefaults(
             IF DictHas(d, Head(required)) THEN d
             ELSE DictSet(d, Head(required), default[Head(required)]),
             Tail(required), default)

ProfileRequired ==
    <<"personal_info", "skills", "experience", "education", "certifications",
      "languages", "summary", "total_experience_years", "key_achievements">>

\* mutant of ProfileDefault: [] for every field, personal_info and skills too
ProfileDefaultAllLists ==
    [f \in {ProfileRequired[i] : i \in 1..Len(ProfileRequired)} |-> JList(<<>>)]

ProfileDefault ==
    [f \in {ProfileRequired[i] : i \in 1..Len(ProfileRequired)} |->
        IF f \in {"personal_info", "skills"} THEN JDict(<<>>) ELSE JList(<<>>)]

\* parsed_data["total_experience_years"] = float(...), 0.0 when float raises
\* ValueError or TypeError
CoerceYears(d) ==
    IF DictHas(d, "total_experience_years")
    THEN DictSet(d, "total_experience_years",
                 IF FloatAccepts(DictGet(d, "total_experience_years"))
                 THEN FloatOf(DictGet(d, "total_experience_years"))
                 ELSE JFloat(0))
    ELSE d

\* ProfileExtractorTool._parse_response
ProfileParseResponse(response_text, threshold) ==
    IF ParsesAsObject(response_text)
    THEN Ret(JsonDumps(CoerceYears(InjectDefaults(
             JsonLoadsObject(BoundedSubstring(response_text)),
             ProfileRequired, ProfileDefault))))
    ELSE ParseFallback(response_text, threshold)

CareerRequired ==
    <<"primary_role", "alternative_roles", "confidence_score", "reasoning",
      "required_skills", "skill_gaps", "salary_range", "growth_potential",
      "industry_demand">>

\* for field in required_fields: if field not in parsed_data: raise ValueError
CareerHasRequired(d) == \A i \in 1..Len(CareerRequired) : DictHas(d, CareerRequired[i])

\* CareerRecommenderTool._parse_response
CareerParseResponse(response_text, threshold) ==
    IF /\ ParsesAsObject(response_text)
       /\ CareerHasRequired(JsonLoadsObject(BoundedSubstring(response_text)))
    THEN Ret(JsonDumps(JsonLoadsObject(BoundedSubstring(response_text))))
    ELSE ParseFallback(response_text, threshold)

QuestionRequired ==
    <<"questions", "total_questions", "estimated_duration",
      "difficulty_distribution", "category_distribution">>

QuestionDefault ==
    [f \in {QuestionRequired[i] : i \in 1..Len(QuestionRequired)} |->
        IF f = "questions" THEN JList(<<>>)
        ELSE IF f \in {"difficulty_distribution", "category_distribution"} THEN JDict(<<>>)
        ELSE JInt(0)]

\* question_fields, in the order of a question item's tuple
QuestionFields == <<"question", "category", "difficulty", "purpose", "expected_answer_type">>

\* isinstance(question, dict)
IsQuestionDict(item) == Len(item) = Len(QuestionFields)

\* for field in question_fields: if field not in question: question[field] = "Not specified"
FillQuestion(item) ==
    IF IsQuestionDict(item)
    THEN [i \in 1..Len(item) |-> IF item[i] = <<Absent>> THEN <<Word("Not specified")>> ELSE item[i]]
    ELSE item

\* the "Validate questions structure" block
ValidateQuestions(d) ==
    IF DictHas(d, "questions") /\ DictGet(d, "questions").ty = "list"
    THEN DictSet(d, "questions",
                 JList([i \in 1..Len(DictGet(d, "questions").xs) |->
                           FillQuestion(DictGet(d, "questions").xs[i])]))
    ELSE d

RECURSIVE CharLen(_)
\* len() of a str
CharLen(t) == IF t = <<>> THEN 0 ELSE Len(Head(t).s) + CharLen(Tail(t))

\* whether len(v) returns; len() of None or a number raises TypeError
HasLen(v) == v.ty \in {"list", "dict", "str"}

PyLen(v) == IF v.ty = "str" THEN CharLen(v.txt) ELSE Len(v.xs)

\* lines[:15]
MaxFallbackLines == 15

\* "estimated_duration": len(questions) * 4
MinutesPerQuestion == 4

\* the question a kept line becomes
FallbackQuestion(line) ==
    <<Strip(line), <<Word("General")>>, <<Word("Medium")>>,
      <<Word("General assessment")>>, <<Word("Detailed response")>>>>

RECURSIVE FallbackQuestions(_)
\* for line in lines: if line.strip(): questions.append({...})
FallbackQuestions(lines) ==
    IF lines = <<>> THEN <<>>
    ELSE (IF Strip(Head(lines)) # <<>> THEN <<FallbackQuestion(Head(lines))>> ELSE <<>>)
         \o FallbackQuestions(Tail(lines))

\* str(n)
IntText(n) == <<Word(ToString(n))>>

\* fallback_data
FallbackData(questions) ==
    <<Member("questions", JList(questions)),
      Member("total_questions", JInt(Len(questions))),
      Member("estimated_duration", JInt(Len(questions) * MinutesPerQuestion)),
      Member("difficulty_distribution", JDict(<<<<<<Word("Medium")>>, IntText(Len(questions))>>>>)),
      Member("category_distribution", JDict(<<<<<<Word("General")>>, IntText(Len(questions))>>>>))>>

\* the except clause of the question normalizer: logger.warning(..., error=str(e)),
\* then the question list synthesised from the lines of the response
QuestionFallback(response_text, threshold) ==
    IF LogKwRaises(WARNING, threshold)
    THEN Raise("TypeError", LogKwMessage("'error'"))
    ELSE Ret(JsonDumps(FallbackData(FallbackQuestions(
             Take(SplitLines(Strip(response_text)), MaxFallbackLines)))))

\* mutant of QuestionNormalized: the "Update total questions count" line is
\* missing
QuestionNormalizedKeepsTotal(parsed_data) ==
    LET d == ValidateQuestions(InjectDefaults(parsed_data, QuestionRequired, QuestionDefault))
    IN IF HasLen(DictGet(d, "questions"))
       THEN Ret(JsonDumps(d))
       ELSE Raise("TypeError", <<Word("object has no len()")>>)

\* the try block of the question normalizer from the parsed object on
QuestionNormalized(parsed_data) ==
    LET d == ValidateQuestions(InjectDefaults(parsed_data, QuestionRequired, QuestionDefault))
    IN IF HasLen(DictGet(d, "questions"))
       THEN Ret(JsonDumps(DictSet(d, "total_questions", JInt(PyLen(DictGet(d, "questions"))))))
       ELSE Raise("TypeError", <<Word("object has no len()")>>)

\* mutant of QuestionParseResponse: the line-by-line fallback is taken for
\* every response, parseable or not
QuestionAlwaysFallback(response_text, threshold) == QuestionFallback(response_text, threshold)

\* QuestionGeneratorTool._parse_response
QuestionParseResponse(response_text, threshold) ==
    IF ParsesAsObject(response_text)
    THEN QuestionNormalized(JsonLoadsObject(BoundedSubstring(response_text)))
    ELSE QuestionFallback(response_text, threshold)

NoCall == [k |-> "none", exc |-> "", text |-> <<>>]

\* a stage not yet invoked; waited counts the seconds its model call has
\* been outstanding
StageIdle == [called |-> FALSE, input |-> <<>>, gen |-> NoCall, out |-> NoCall, waited |-> 0]

\* no file_path given yet
NoDocument == [exists |-> FALSE, convert |-> NoCall]

\* tool._parse_response(response_text) of the variant's tool
ParseResponse(variant, response_text, threshold) ==
    IF variant = "profile" THEN ProfileParseResponse(response_text, threshold)
    ELSE IF variant = "career" THEN CareerParseResponse(response_text, threshold)
    ELSE QuestionParseResponse(response_text, threshold)

Required(variant) ==
    IF variant = "profile" THEN ProfileRequired
    ELSE IF variant = "career" THEN CareerRequired
    ELSE QuestionRequired

\* the career members a complete recommendation has besides primary_role
CareerRest ==
    <<Member("alternative_roles", JList(<<<<<<Word("Tech Lead")>>>>>>)),
      Member("confidence_score", JFloat(85)),
      Member("reasoning", JStr(<<Word("Strong technical background")>>)),
      Member("required_skills", JList(<<<<<<Word("Python")>>>>>>)),
      Member("skill_gaps", JList(<<>>)),
      Member("salary_range", JDict(<<<<<<Word("min")>>, <<Word("80000")>>>>>>)),
      Member("growth_potential", JStr(<<Word("High")>>)),
      Member("industry_demand", JStr(<<Word("Very high")>>))>>

\* a question object with every field, and one with the question text alone
FullQuestion ==
    <<<<Word("How do you approach system design?")>>, <<Word("Technical Skills")>>,
      <<Word("Hard")>>, <<Word("Evaluate technical depth")>>, <<Word("Technical explanation")>>>>
BareQuestion ==
    <<<<Word("Tell me about your leadership experience.")>>, <<Absent>>, <<Absent>>,
      <<Absent>>, <<Absent>>>>

(***************************************************************************)
(* State.                                                                  *)
(***************************************************************************)
VARIABLES
    log_level,               \* the effective level of the tools' loggers
    pc,                      \* where process_cv_comprehensive stands
    doc,                     \* the document behind file_path
    raw_text,                \* the locals of process_cv_comprehensive
    profile_data,
    career_recommendations,
    interview_questions,
    calls,                   \* the stages invoked in this run, in order
    active,                  \* the stage in progress, 0 when none is
    stages,                  \* per stage: its input, what the model answered, what it did
    results,                 \* what the run handed to its caller
    nz,                      \* a normalizer under test: input, pass, outputs
    qa,                      \* quick analytics under test: the two texts, what each helper gave
    ep,                      \* a call of quick_career_recommendation or generate_targeted_questions
    svc,                     \* a call of an AnalyticsService method: its inputs and what it gave
    db,                      \* the store behind the AsyncSession: its tables
    agg,                     \* a call of an AnalyticsService method on the store
    runs                     \* the frames of concurrent calls of process_cv_comprehensive

vars == <<log_level, pc, doc, raw_text, profile_data, career_recommendations,
          interview_questions, calls, active, stages, results, nz, qa, ep, svc,
          db, agg, runs>>

\* the variables of the harnesses, which a pipeline step leaves alone
harness_vars == <<nz, qa, ep, svc, db, agg, runs>>

pipeline_vars == <<pc, doc, raw_text, profile_data, career_recommendations,
                   interview_questions, calls, active, stages, results>>

(***************************************************************************)
(* PDFConverterTool.                                                       *)
(***************************************************************************)
PdfNotFound == Word("Error: PDF file not found at")
PdfConversionFailed == Word("Error during PDF to Markdown conversion:")
PdfNoText == Word("No text was extracted from the PDF.")

\* PDFConverterTool._convert_pdf_sync: doc.exists is os.path.exists(pdf_path),
\* doc.convert is what MarkItDown().convert(pdf_path) does
ConvertPdfSync(d) ==
    IF ~d.exists THEN <<PdfNotFound, SP, Word("'cv.pdf'")>>
    ELSE IF d.convert.k = "raise" THEN <<PdfConversionFailed, SP>> \o d.convert.text
    ELSE IF Strip(d.convert.text) # <<>> THEN Strip(d.convert.text)
    ELSE <<PdfNoText>>

(***************************************************************************)
(* The tools' _run.  gen is what self._model.generate_content(prompt) and  *)
(* response.text do: return the response text, or raise.                   *)
(***************************************************************************)
\* the text each tool returns from its except clause, before str(e)
ErrorPrefix(variant) ==
    IF variant = "profile" THEN Word("Error extracting profile:")
    ELSE IF variant = "career" THEN Word("Error while generating career recommendations:")
    ELSE Word("Error generating questions:")

\* what the try block of _run does: the model call, logger.info(msg,
\* processing_time=..., ...), then _parse_response(response.text.strip())
ToolTry(variant, gen, threshold) ==
    IF gen.k = "raise" THEN gen
    ELSE IF LogKwRaises(INFO, threshold) THEN Raise("TypeError", LogKwMessage("'processing_time'"))
    ELSE ParseResponse(variant, Strip(gen.text), threshold)

\* the except clause of _run: logger.error(msg, error=str(e)), then the
\* error text is returned
ToolExcept(variant, e, threshold) ==
    IF LogKwRaises(ERROR, threshold)
    THEN Raise("TypeError", LogKwMessage("'error'"))
    ELSE Ret(<<ErrorPrefix(variant), SP>> \o e.text)

\* ProfileExtractorTool._run, CareerRecommenderTool._run, QuestionGeneratorTool._run
ToolRun(variant, gen, threshold) ==
    IF ToolTry(variant, gen, threshold).k = "ret"
    THEN ToolTry(variant, gen, threshold)
    ELSE ToolExcept(variant, ToolTry(variant, gen, threshold), threshold)

(***************************************************************************)
(* EnhancedCVAgent helpers.                                                *)
(***************************************************************************)
\* A parsed value: a dict (d), another JSON value (val), or the string
\* itself (text).
PDict(d) == [tag |-> "dict", d |-> d, val |-> JNull, text |-> <<>>]
PJson(v) == [tag |-> "json", d |-> <<>>, val |-> v, text |-> <<>>]
PStr(t) == [tag |-> "str", d |-> <<>>, val |-> JNull, text |-> t]
PNone == [tag |-> "none", d |-> <<>>, val |-> JNull, text |-> <<>>]

\* EnhancedCVAgent._parse_json_safely: json.loads of the whole string
ParseJsonSafely(json_string) ==
    IF JsonObjectParses(Strip(json_string)) THEN PDict(JsonLoadsObject(Strip(json_string)))
    ELSE IF /\ Len(Strip(json_string)) = 1
            /\ Strip(json_string)[1].c = "word"
            /\ Strip(json_string)[1].s \in JsonLiteralWords
         THEN PJson(JNull)
    ELSE PStr(json_string)

\* bool(v)
Truthy(v) ==
    IF v.ty = "null" THEN FALSE
    ELSE IF v.ty \in {"bool", "int", "float"} THEN v.n # 0
    ELSE IF v.ty = "str" THEN v.txt # <<>>
    ELSE v.xs # <<>>

\* dict.get(key, default)
DictGetOr(d, key, default) == IF DictHas(d, key) THEN DictGet(d, key) ELSE default

\* mutant of CalculateProfileCompleteness: "field in profile" in place of
\* "profile.get(field)", so that an empty value counts
CompletenessCountsPresent(profile) ==
    IF profile.tag # "dict" THEN 0
    ELSE 250 * Cardinality({f \in {"personal_info", "skills", "experience", "education"} :
                               DictHas(profile.d, f)})

\* _calculate_profile_completeness, in tenths of a percent
CalculateProfileCompleteness(profile) ==
    IF profile.tag # "dict" THEN 0
    ELSE 250 * Cardinality({f \in {"personal_info", "skills", "experience", "education"} :
                               DictHas(profile.d, f) /\ Truthy(DictGet(profile.d, f))})

RECURSIVE SumItemLens(_)
SumItemLens(items) ==
    IF items = <<>> THEN 0 ELSE (Len(Head(items)) - 1) + SumItemLens(Tail(items))

\* _calculate_skill_diversity
CalculateSkillDiversity(profile) ==
    IF profile.tag # "dict" THEN 0
    ELSE IF DictGetOr(profile.d, "skills", JDict(<<>>)).ty # "dict" THEN 0
    ELSE SumItemLens(DictGetOr(profile.d, "skills", JDict(<<>>)).xs)

\* years < 2 and the like raise TypeError unless years is a number
Comparable(v) == v.ty \in {"int", "float", "bool"}

Hundredths(v) == IF v.ty = "float" THEN v.n ELSE v.n * 100

\* mutant of AssessExperienceLevel: "<=" in place of "<"
AssessExperienceLevelInclusive(profile) ==
    IF profile.tag # "dict" THEN "unknown"
    ELSE LET years == Hundredths(DictGetOr(profile.d, "total_experience_years", JInt(0)))
         IN IF years <= 200 THEN "entry"
            ELSE IF years <= 500 THEN "junior"
            ELSE IF years <= 1000 THEN "mid"
            ELSE "senior"

\* _assess_experience_level, for a profile whose years compare with numbers
AssessExperienceLevel(profile) ==
    IF profile.tag # "dict" THEN "unknown"
    ELSE LET years == Hundredths(DictGetOr(profile.d, "total_experience_years", JInt(0)))
         IN IF years < 200 THEN "entry"
            ELSE IF years < 500 THEN "junior"
            ELSE IF years < 1000 THEN "mid"
            ELSE "senior"

\* _extract_career_confidence
ExtractCareerConfidence(career) ==
    IF career.tag = "dict" THEN DictGetOr(career.d, "confidence_score", JFloat(0)) ELSE JFloat(0)

\* _count_recommendations, for alternatives that are falsy or have a len()
CountRecommendations(career) ==
    IF career.tag = "dict"
    THEN IF Truthy(DictGetOr(career.d, "alternative_roles", JList(<<>>)))
         THEN 1 + PyLen(DictGetOr(career.d, "alternative_roles", JList(<<>>)))
         ELSE 1
    ELSE 0

AnalyticsFailed ==
    [k |-> "error", profile_completeness |-> 0, skill_diversity |-> 0,
     experience_level |-> "", career_confidence |-> JNull, recommendations_count |-> 0]

NoAnalytics == [AnalyticsFailed EXCEPT !.k = "none"]

\* _generate_quick_analytics: any exception of the five helpers is caught
\* and {"error": "Analytics generation failed"} returned
GenerateQuickAnalytics(profile_text, career_text) ==
    LET profile == ParseJsonSafely(profile_text)
        career == ParseJsonSafely(career_text)
        years == DictGetOr(profile.d, "total_experience_years", JInt(0))
        alternatives == DictGetOr(career.d, "alternative_roles", JList(<<>>))
    IN IF \/ (profile.tag = "dict" /\ ~Comparable(years))
          \/ (career.tag = "dict" /\ Truthy(alternatives) /\ ~HasLen(alternatives))
       THEN AnalyticsFailed
       ELSE [k |-> "ok",
             profile_completeness |-> CalculateProfileCompleteness(profile),
             skill_diversity |-> CalculateSkillDiversity(profile),
             experience_level |-> AssessExperienceLevel(profile),
             career_confidence |-> ExtractCareerConfidence(career),
             recommendations_count |-> CountRecommendations(career)]

(***************************************************************************)
(* EnhancedCVAgent.process_cv_comprehensive.                               *)
(***************************************************************************)
\* What the caller gets: k is "returned" with the dict returned (keys are
\* its keys; status and info_error are processing_info's), or "raised" with
\* the exception that left the call (exc, error).
NoResults ==
    [k |-> "none", exc |-> "", keys |-> {}, status |-> "", info_error |-> <<>>,
     error |-> <<>>, raw_text |-> <<>>, profile_analysis |-> PNone,
     career_recommendations |-> PNone, interview_questions |-> PNone,
     analytics |-> NoAnalytics]

\* the dict of "Step 6: Compile comprehensive results"
CompletedResults(raw, profile, career, questions) ==
    [NoResults EXCEPT
        !.k = "returned",
        !.keys = {"processing_info", "raw_text", "profile_analysis",
                  "career_recommendations", "interview_questions", "analytics"},
        !.status = "completed",
        !.raw_text = raw,
        !.profile_analysis = ParseJsonSafely(profile),
        !.career_recommendations = ParseJsonSafely(career),
        !.interview_questions = ParseJsonSafely(questions),
        !.analytics = GenerateQuickAnalytics(profile, career)]

\* the dict the except clause returns
FailedResults(e) ==
    [NoResults EXCEPT
        !.k = "returned",
        !.keys = {"processing_info", "error"},
        !.status = "failed",
        !.info_error = e.text,
        !.error = e.text]

\* mutant of CaughtByProcess: "except ValueError" in place of "except Exception"
CaughtValueErrorOnly(exc) == exc = "ValueError"

\* the classes "except Exception" catches
CaughtByProcess(exc) == exc \in {"Exception", "ValueError", "TypeError", "DeadlineExceeded"}

\* an exception raised inside the try block of process_cv_comprehensive
ProcessExcept(e) ==
    IF CaughtByProcess(e.exc) THEN FailedResults(e)
    ELSE [NoResults EXCEPT !.k = "raised", !.exc = e.exc, !.error = e.text]

\* mutant of ExtractionFailed: the extractor's text is left out of the message
ExtractionFailedNoMessage(raw) == Raise("ValueError", <<Word("PDF extraction failed")>>)

\* raise ValueError(f"PDF extraction failed: {raw_text}")
ExtractionFailed(raw) == Raise("ValueError", <<Word("PDF extraction failed:"), SP>> \o raw)

\* where process_cv_comprehensive stands when stage n is the next to invoke
StageLabel(n) == IF n = 1 THEN "stage1" ELSE IF n = 2 THEN "stage2" ELSE IF n = 3 THEN "stage3" ELSE "stage4"

\* mutant of NextStage: the questions are generated before the recommendations
NextStageQuestionsFirst(n) ==
    IF n = 1 THEN "stage2" ELSE IF n = 2 THEN "stage4" ELSE IF n = 4 THEN "stage3" ELSE "compile"

\* the stage after stage n
NextStage(n) == IF n = 1 THEN "stage2" ELSE IF n = 2 THEN "stage3" ELSE IF n = 3 THEN "stage4" ELSE "compile"

StageVariant(n) == IF n = 2 THEN "profile" ELSE IF n = 3 THEN "career" ELSE "question"

(***************************************************************************)
(* The documents and the model answers the pipeline is run on.             *)
(***************************************************************************)
CvText == <<Word("John Doe"), NL, Word("Python developer, 5 years")>>
CvTextWithError == <<Word("Jane Roe"), NL, Word("Reduced"), SP, Word("Error"), SP, Word("rates by 40%")>>

Documents ==
    {[exists |-> FALSE, convert |-> NoCall],
     [exists |-> TRUE, convert |-> Raise("Exception", <<Word("File is not a valid PDF")>>)],
     [exists |-> TRUE, convert |-> Ret(<<NL, SP>>)],
     [exists |-> TRUE, convert |-> Ret(<<SP>> \o CvText \o <<NL>>)],
     [exists |-> TRUE, convert |-> Ret(CvTextWithError)]}

\* the extractor found the file missing, could not convert it, or got no text
ExtractorReportedError(d) ==
    \/ ~d.exists
    \/ d.convert.k = "raise"
    \/ Strip(d.convert.text) = <<>>

ProfileObject ==
    <<LB, NL,
      Member("personal_info", JDict(<<<<<<Word("name")>>, <<Word("John Doe")>>>>>>)), NL,
      Member("skills", JDict(<<<<<<Word("technical")>>, <<Word("Python")>>, <<Word("SQL")>>>>>>)), NL,
      Member("total_experience_years", JInt(5)), NL, RB>>

\* generate_content fails, or times out
GenFailures ==
    {Raise("Exception", <<Word("API Error")>>),
     Raise("DeadlineExceeded", <<Word("504 Deadline Exceeded")>>)}

GenOutcomes(variant) ==
    GenFailures \cup
    (IF variant = "profile"
     THEN {Ret(<<Word("Here is the profile:"), NL>> \o ProfileObject \o <<NL, Word("Done.")>>),
           Ret(<<Word("This is not valid JSON")>>),
           Ret(<<Word("null")>>)}
     ELSE IF variant = "career"
     THEN {Ret(<<LB, Member("primary_role", JStr(<<Word("Senior Software Engineer")>>))>>
               \o CareerRest \o <<RB>>),
           Ret(<<LB, Member("primary_role", JStr(<<Word("Senior Software Engineer")>>)), RB>>),
           Ret(<<Word("I recommend a senior role.")>>)}
     ELSE {Ret(<<LB, Member("questions", JList(<<FullQuestion, BareQuestion>>)),
                 Member("total_questions", JInt(15)), RB>>),
           Ret(<<Word("1. What is your experience with Python?"), NL,
                 Word("2. How do you handle team conflicts?"), NL,
                 Word("3. Describe your approach to debugging.")>>)})

(***************************************************************************)
(* The steps of one call of process_cv_comprehensive.                      *)
(***************************************************************************)
\* the caller calls process_cv_comprehensive(file_path, ...)
StartRun ==
    /\ pc = "idle"
    /\ \E d \in Documents : doc' = d
    /\ pc' = "stage1"
    /\ UNCHANGED <<log_level, raw_text, profile_data, career_recommendations,
                   interview_questions, calls, active, stages, results, harness_vars>>

\* stage n is entered: self.pdf_tool._run(file_path), self.profile_tool._run(raw_text),
\* self.career_tool._run(profile_data), self.question_tool._run(profile_data, ...)
CallStage(n) ==
    /\ pc = StageLabel(n)
    /\ active = 0
    /\ active' = n
    /\ calls' = Append(calls, n)
    /\ stages' = [stages EXCEPT ![n] =
                     [StageIdle EXCEPT !.called = TRUE,
                                       !.input = IF n = 1 THEN <<>>
                                                 ELSE IF n = 2 THEN raw_text
                                                 ELSE profile_data]]
    /\ UNCHANGED <<log_level, pc, doc, raw_text, profile_data, career_recommendations,
                   interview_questions, results, harness_vars>>

\* stage 1 returns, and the "Error" check on its text
ReturnStage1 ==
    /\ active = 1
    /\ active' = 0
    /\ raw_text' = ConvertPdfSync(doc)
    /\ stages' = [stages EXCEPT ![1].out = Ret(ConvertPdfSync(doc))]
    /\ IF TextHasError(ConvertPdfSync(doc))
       THEN /\ results' = ProcessExcept(ExtractionFailed(ConvertPdfSync(doc)))
            /\ pc' = "returned"
       ELSE /\ results' = results
            /\ pc' = NextStage(1)
    /\ UNCHANGED <<log_level, doc, profile_data, career_recommendations,
                   interview_questions, calls, harness_vars>>

\* stage n of 2, 3, 4 returns its text, or raises into the except clause
ReturnStage(n) ==
    /\ n \in 2..4
    /\ active = n
    /\ active' = 0
    /\ \E gen \in GenOutcomes(StageVariant(n)) :
          LET out == ToolRun(StageVariant(n), gen, log_level) IN
          /\ stages' = [stages EXCEPT ![n].gen = gen, ![n].out = out]
          /\ IF out.k = "ret"
             THEN /\ profile_data' = (IF n = 2 THEN out.text ELSE profile_data)
                  /\ career_recommendations' = (IF n = 3 THEN out.text ELSE career_recommendations)
                  /\ interview_questions' = (IF n = 4 THEN out.text ELSE interview_questions)
                  /\ results' = results
                  /\ pc' = NextStage(n)
             ELSE /\ UNCHANGED <<profile_data, career_recommendations, interview_questions>>
                  /\ results' = ProcessExcept(out)
                  /\ pc' = "returned"
    /\ UNCHANGED <<log_level, doc, raw_text, calls, harness_vars>>

\* steps 5 to 7: the results dict is compiled and returned
Compile ==
    /\ pc = "compile"
    /\ active = 0
    /\ results' = CompletedResults(raw_text, profile_data, career_recommendations,
                                   interview_questions)
    /\ pc' = "returned"
    /\ UNCHANGED <<log_level, doc, raw_text, profile_data, career_recommendations,
                   interview_questions, calls, active, stages, harness_vars>>

\* the caller has its result; the agent is ready for the next call
NewRun ==
    /\ pc = "returned"
    /\ pc' = "idle"
    /\ doc' = NoDocument
    /\ raw_text' = <<>>
    /\ profile_data' = <<>>
    /\ career_recommendations' = <<>>
    /\ interview_questions' = <<>>
    /\ calls' = <<>>
    /\ active' = 0
    /\ stages' = [n \in 1..4 |-> StageIdle]
    /\ results' = NoResults
    /\ UNCHANGED <<log_level, harness_vars>>

\* no entry point of the agent other than process_cv_comprehensive is running
EpIdle ==
    [entry |-> "none", pc |-> "idle", calls |-> <<>>, active |-> 0,
     cv_text |-> <<>>, profile_data |-> <<>>, target_role |-> "", difficulty_level |-> "",
     question_count |-> 0, profile_summary |-> <<>>,
     stages |-> [n \in 1..4 |-> StageIdle],
     result |-> [k |-> "none", success |-> FALSE, error |-> <<>>, keys |-> {},
                 profile_summary |-> PNone, career_recommendation |-> PNone, questions |-> PNone]]

\* no AnalyticsService method has been called
SvcIdle ==
    [op |-> "none", cv_stats |-> <<>>, interview_stats |-> <<>>, records |-> <<>>,
     out |-> NoCall,
     summary |-> [total_processed |-> JNull, success_rate |-> JNull, total_interviews |-> JNull,
                  avg_processing_time |-> JNull, health_score |-> 0],
     monthly_skills |-> [months |-> {}, counts |-> {}], trending_up |-> {}, trending_down |-> {},
     confidence_scores |-> <<>>,
     confidence_distribution |-> [high |-> 0, medium |-> 0, low |-> 0]]

\* the cv_analyses and interview_sessions tables, with no row
EmptyStore == [cv_analyses |-> <<>>, interview_sessions |-> <<>>]

\* no AnalyticsService method is running on the store
AggIdle == [op |-> "none"]

\* no concurrent call of process_cv_comprehensive
NoRuns == <<>>

\* quick analytics not yet computed
QaIdle ==
    [profile_data |-> <<>>, career_data |-> <<>>, done |-> FALSE,
     completeness |-> 0, level |-> "", confidence |-> JNull,
     count |-> NoCall, analytics |-> NoAnalytics]

(***************************************************************************)
(* The normalizers alone: a raw text is normalized, and the text returned  *)
(* is normalized again.                                                    *)
(***************************************************************************)
Variants == {"profile", "career", "question"}

\* a response of three numbered questions, one per line, each indented
ThreeQuestionLines ==
    <<SP, Word("1. What is your experience with Python?"), NL,
      SP, Word("2. How do you handle team conflicts?"), NL,
      SP, Word("3. Describe your approach to debugging.")>>

RECURSIVE Concat(_)
Concat(fs) == IF fs = <<>> THEN <<>> ELSE Head(fs) \o Concat(Tail(fs))

\* a response of seventeen lines: a question, a blank line, fifteen more
\* questions
LongResponse ==
    <<Word("Question 1"), NL>>
    \o Concat([i \in 1..15 |-> <<NL, Word("Question " \o ToString(i + 1))>>])

\* the pieces raw texts are put together from
Fragments(variant) ==
    {<<LB>>, <<RB>>, <<NL>>, <<Word("Here is the result")>>}
    \cup (IF variant = "profile"
          THEN {<<Member("personal_info", JDict(<<<<<<Word("name")>>, <<Word("John Doe")>>>>>>))>>,
                <<Member("total_experience_years", JInt(5))>>,
                <<Member("total_experience_years", JStr(<<Word("n/a")>>))>>}
          ELSE IF variant = "career"
          THEN {<<Member("primary_role", JStr(<<Word("Senior Software Engineer")>>))>>,
                CareerRest}
          ELSE {<<Member("questions", JList(<<FullQuestion, BareQuestion>>))>>,
                <<Member("questions", JInt(15))>>,
                <<Member("total_questions", JInt(15))>>,
                ThreeQuestionLines})

\* the first '{' and the last '}' of the text are braces of their own, not
\* characters inside a member
BracesOutermost(t) ==
    \A i \in 1..Len(t) : t[i].c = "member" =>
        /\ \E j \in 1..(i - 1) : t[j].c = "lbrace"
        /\ \E j \in (i + 1)..Len(t) : t[j].c = "rbrace"

\* the raw texts a normalizer is tried on: at most MaxLen fragments
RawTexts(variant) ==
    {t \in {Concat(fs) : fs \in UNION {[1..l -> Fragments(variant)] : l \in 0..MaxLen}} :
        BracesOutermost(t)}
    \cup (IF variant = "question" THEN {LongResponse} ELSE {})

NzIdle == [variant |-> "profile", raw |-> <<>>, pass |-> 0, out1 |-> Ret(<<>>), out2 |-> Ret(<<>>)]

\* result = self._parse_response(raw)
Normalize ==
    /\ nz.pass = 0
    /\ nz' = [nz EXCEPT !.pass = 1, !.out1 = ParseResponse(nz.variant, nz.raw, log_level)]
    /\ UNCHANGED <<log_level, pipeline_vars, qa, ep, svc, db, agg, runs>>

\* self._parse_response(result)
Renormalize ==
    /\ nz.pass = 1
    /\ nz.out1.k = "ret"
    /\ nz' = [nz EXCEPT !.pass = 2, !.out2 = ParseResponse(nz.variant, nz.out1.text, log_level)]
    /\ UNCHANGED <<log_level, pipeline_vars, qa, ep, svc, db, agg, runs>>

PipelineIdle ==
    /\ pc = "idle"
    /\ doc = NoDocument
    /\ raw_text = <<>>
    /\ profile_data = <<>>
    /\ career_recommendations = <<>>
    /\ interview_questions = <<>>
    /\ calls = <<>>
    /\ active = 0
    /\ stages = [n \in 1..4 |-> StageIdle]
    /\ results = NoResults

InitNormalize ==
    /\ log_level \in LogLevels
    /\ PipelineIdle
    /\ \E variant \in Variants : \E raw \in RawTexts(variant) :
           nz = [NzIdle EXCEPT !.variant = variant, !.raw = raw]
    /\ qa = QaIdle
    /\ ep = EpIdle
    /\ svc = SvcIdle
    /\ db = EmptyStore
    /\ agg = AggIdle
    /\ runs = NoRuns

NextNormalize == Normalize \/ Renormalize

SpecNormalize == InitNormalize /\ [][NextNormalize]_vars

(***************************************************************************)
(* Quick analytics alone: _generate_quick_analytics and its five helpers   *)
(* on the texts stages 2 and 3 can return.                                 *)
(***************************************************************************)
\* one member, or none when the value is left out
OptMember(key, val) == IF val = JNull THEN <<>> ELSE <<Member(key, val)>>

\* a field left out (JNull here), empty, or populated
PersonalInfoValues == {JNull, JDict(<<>>), JDict(<<<<<<Word("name")>>, <<Word("John Doe")>>>>>>)}
SkillsValues ==
    {JNull, JDict(<<>>), JDict(<<<<<<Word("technical")>>, <<Word("Python")>>, <<Word("SQL")>>>>>>)}
ExperienceValues == {JNull, JList(<<>>), JList(<<<<<<Word("Engineer at Acme")>>>>>>)}
EducationValues == {JNull, JList(<<>>), JList(<<<<<<Word("BSc Computer Science")>>>>>>)}

\* total_experience_years as the model may give it: left out, a float (in
\* hundredths), an int, or a string float() rejects
YearsValues ==
    {JNull, JFloat(-100), JFloat(0), JFloat(190), JFloat(200), JFloat(499), JFloat(500),
     JFloat(990), JFloat(1000), JInt(12), JStr(<<Word("n/a")>>)}

ProfileOf(pi, sk, ex, ed, yr) ==
    OptMember("personal_info", pi) \o OptMember("skills", sk) \o OptMember("experience", ex)
        \o OptMember("education", ed) \o OptMember("total_experience_years", yr)

\* the profile objects the model may answer with
ProfileObjects ==
    {ProfileOf(pi, sk, ex, ed, JNull) :
        pi \in PersonalInfoValues, sk \in SkillsValues, ex \in ExperienceValues, ed \in EducationValues}
    \cup {ProfileOf(JDict(<<<<<<Word("name")>>, <<Word("John Doe")>>>>>>), JDict(<<>>), JNull, JNull, yr) :
              yr \in YearsValues}

\* what stage 2 can hand on: a normalized object, or a text that is no object
\* (the model's prose, the tool's error text)
ProfileTexts ==
    {ProfileParseResponse(JsonDumps(p), CRITICAL).text : p \in ProfileObjects}
    \cup {<<Word("This is not valid JSON")>>,
          <<ErrorPrefix("profile"), SP, Word("API Error")>>}

\* alternative_roles and confidence_score as the model may give them
AlternativeRolesValues ==
    {JNull, JList(<<>>), JList(<<<<<<Word("Tech Lead")>>>>, <<<<Word("Architect")>>>>>>),
     JStr(<<Word("Tech Lead")>>), JInt(3)}
ConfidenceValues == {JNull, JFloat(0), JFloat(50), JFloat(85), JFloat(100), JFloat(150), JFloat(-20)}

\* what stage 3 can hand on: the recommendation object re-serialised or as
\* the model wrote it (the normalizer checks no value), or a text that is
\* no object
CareerTexts ==
    {CareerParseResponse(
         JsonDumps(<<Member("primary_role", JStr(<<Word("Senior Software Engineer")>>))>>
                   \o OptMember("alternative_roles", ar) \o OptMember("confidence_score", cs)),
         CRITICAL).text : ar \in AlternativeRolesValues, cs \in ConfidenceValues}
    \cup {<<Word("I recommend a senior role.")>>,
          <<ErrorPrefix("career"), SP, Word("API Error")>>}

\* "analytics": await self._generate_quick_analytics(profile_data, career_recommendations),
\* with what each helper gives on its own
Analyse ==
    /\ ~qa.done
    /\ LET profile == ParseJsonSafely(qa.profile_data)
           career == ParseJsonSafely(qa.career_data)
           years == DictGetOr(profile.d, "total_experience_years", JInt(0))
           alternatives == DictGetOr(career.d, "alternative_roles", JList(<<>>))
       IN qa' = [qa EXCEPT
                    !.done = TRUE,
                    !.completeness = CalculateProfileCompleteness(profile),
                    !.level = IF profile.tag = "dict" /\ ~Comparable(years) THEN "TypeError"
                              ELSE AssessExperienceLevel(profile),
                    !.confidence = ExtractCareerConfidence(career),
                    !.count = IF career.tag = "dict" /\ Truthy(alternatives) /\ ~HasLen(alternatives)
                              THEN Raise("TypeError", <<Word("object has no len()")>>)
                              ELSE Ret(IntText(CountRecommendations(career))),
                    !.analytics = GenerateQuickAnalytics(qa.profile_data, qa.career_data)]
    /\ UNCHANGED <<log_level, pipeline_vars, nz, ep, svc, db, agg, runs>>

InitAnalytics ==
    /\ log_level \in LogLevels
    /\ PipelineIdle
    /\ nz = NzIdle
    /\ ep = EpIdle
    /\ svc = SvcIdle
    /\ db = EmptyStore
    /\ agg = AggIdle
    /\ runs = NoRuns
    /\ \E p \in ProfileTexts : \E c \in CareerTexts :
           qa = [QaIdle EXCEPT !.profile_data = p, !.career_data = c]

NextAnalytics == Analyse

SpecAnalytics == InitAnalytics /\ [][NextAnalytics]_vars

(***************************************************************************)
(* The lighter entry points: quick_career_recommendation and               *)
(* generate_targeted_questions.                                            *)
(***************************************************************************)
\* mutant of EnhancedPrompt: the "REQUESTED QUESTIONS" line is left out
EnhancedPromptWithoutCount(profile, target_role, difficulty_level, question_count) ==
    <<NL, SP, Word("CANDIDATE PROFILE:"), NL, SP>> \o profile
        \o <<NL, NL, SP, Word("TARGET ROLE:"), SP, Word(target_role), NL,
             SP, Word("DIFFICULTY LEVEL:"), SP, Word(difficulty_level), NL, NL,
             SP, Word("Generate interview questions specifically tailored for the target role."),
             NL, SP>>

\* the enhanced_prompt f-string of generate_targeted_questions
EnhancedPrompt(profile, target_role, difficulty_level, question_count) ==
    <<NL, SP, Word("CANDIDATE PROFILE:"), NL, SP>> \o profile
        \o <<NL, NL, SP, Word("TARGET ROLE:"), SP, Word(target_role), NL,
             SP, Word("DIFFICULTY LEVEL:"), SP, Word(difficulty_level), NL,
             SP, Word("REQUESTED QUESTIONS:"), SP, Word(ToString(question_count)), NL, NL,
             SP, Word("Generate interview questions specifically tailored for the target role."),
             NL, SP>>

\* a profile whose summary holds the word "Error"
ProfileWithErrorWord ==
    <<LB, NL,
      Member("personal_info", JDict(<<<<<<Word("name")>>, <<Word("Jane Roe")>>>>>>)), NL,
      Member("summary", JStr(<<Word("Reduced"), SP, Word("Error"), SP, Word("rates by 40%")>>)), NL,
      RB>>

\* what the model may answer the profile prompt of the quick entry point
QuickProfileOutcomes == GenOutcomes("profile") \cup {Ret(ProfileWithErrorWord)}

\* the arguments generate_targeted_questions is tried with
TargetRoles == {"Senior Software Engineer", "Data Scientist"}
DifficultyLevels == {"intermediate", "advanced"}
QuestionCounts == {5, 15}

\* the dict an entry point returns from its except clause
EntryFailed(e) ==
    [EpIdle.result EXCEPT !.k = "returned", !.success = FALSE, !.error = e.text,
                          !.keys = {"success", "error"}]

\* raise ValueError("Could not extract profile from CV")
QuickExtractionFailed == Raise("ValueError", <<Word("Could not extract profile from CV")>>)

\* the caller calls quick_career_recommendation(cv_text)
QuickStart ==
    /\ ep.pc = "idle"
    /\ \E t \in {CvText, CvTextWithError} :
          ep' = [EpIdle EXCEPT !.entry = "quick", !.cv_text = t, !.pc = "stage2"]
    /\ UNCHANGED <<log_level, pipeline_vars, nz, qa, svc, db, agg, runs>>

\* the caller calls generate_targeted_questions(profile_data, target_role, ...)
TargetedStart ==
    /\ ep.pc = "idle"
    /\ \E r \in TargetRoles : \E d \in DifficultyLevels : \E c \in QuestionCounts :
          ep' = [EpIdle EXCEPT !.entry = "targeted", !.profile_data = ProfileObject,
                               !.target_role = r, !.difficulty_level = d,
                               !.question_count = c, !.pc = "stage4"]
    /\ UNCHANGED <<log_level, pipeline_vars, nz, qa, svc, db, agg, runs>>

\* self.profile_tool._run(cv_text), self.career_tool._run(profile_summary),
\* self.question_tool._run(enhanced_prompt, target_role, difficulty_level)
EntryCall(n) ==
    /\ n \in 2..4
    /\ ep.pc = StageLabel(n)
    /\ ep.active = 0
    /\ ep' = [ep EXCEPT
                 !.active = n,
                 !.calls = Append(ep.calls, n),
                 !.stages[n] =
                     [StageIdle EXCEPT
                         !.called = TRUE,
                         !.input = IF n = 2 THEN ep.cv_text
                                   ELSE IF n = 3 THEN ep.profile_summary
                                   ELSE EnhancedPrompt(ep.profile_data, ep.target_role,
                                                       ep.difficulty_level, ep.question_count)]]
    /\ UNCHANGED <<log_level, pipeline_vars, nz, qa, svc, db, agg, runs>>

\* the profile tool returns or raises, and the "Error" check on its text
QuickReturnProfile ==
    /\ ep.entry = "quick"
    /\ ep.active = 2
    /\ \E gen \in QuickProfileOutcomes :
          LET out == ToolRun("profile", gen, log_level) IN
          ep' = [ep EXCEPT
                    !.active = 0,
                    !.stages[2].gen = gen,
                    !.stages[2].out = out,
                    !.profile_summary = IF out.k = "ret" THEN out.text ELSE <<>>,
                    !.pc = IF out.k = "ret" /\ ~TextHasError(out.text) THEN "stage3"
                           ELSE "returned",
                    !.result = IF out.k = "raise" THEN EntryFailed(out)
                               ELSE IF TextHasError(out.text) THEN EntryFailed(QuickExtractionFailed)
                               ELSE ep.result]
    /\ UNCHANGED <<log_level, pipeline_vars, nz, qa, svc, db, agg, runs>>

\* the career tool returns or raises, and the quick entry point returns
QuickReturnCareer ==
    /\ ep.entry = "quick"
    /\ ep.active = 3
    /\ \E gen \in GenOutcomes("career") :
          LET out == ToolRun("career", gen, log_level) IN
          ep' = [ep EXCEPT
                    !.active = 0,
                    !.stages[3].gen = gen,
                    !.stages[3].out = out,
                    !.pc = "returned",
                    !.result = IF out.k = "raise" THEN EntryFailed(out)
                               ELSE [ep.result EXCEPT
                                        !.k = "returned", !.success = TRUE,
                                        !.keys = {"success", "processing_time",
                                                  "profile_summary", "career_recommendation"},
                                        !.profile_summary = ParseJsonSafely(ep.profile_summary),
                                        !.career_recommendation = ParseJsonSafely(out.text)]]
    /\ UNCHANGED <<log_level, pipeline_vars, nz, qa, svc, db, agg, runs>>

\* the question tool returns or raises, and the targeted entry point returns
TargetedReturn ==
    /\ ep.entry = "targeted"
    /\ ep.active = 4
    /\ \E gen \in GenOutcomes("question") :
          LET out == ToolRun("question", gen, log_level) IN
          ep' = [ep EXCEPT
                    !.active = 0,
                    !.stages[4].gen = gen,
                    !.stages[4].out = out,
                    !.pc = "returned",
                    !.result = IF out.k = "raise" THEN EntryFailed(out)
                               ELSE [ep.result EXCEPT
                                        !.k = "returned", !.success = TRUE,
                                        !.keys = {"success", "processing_time", "target_role",
                                                  "difficulty_level", "questions"},
                                        !.questions = ParseJsonSafely(out.text)]]
    /\ UNCHANGED <<log_level, pipeline_vars, nz, qa, svc, db, agg, runs>>

\* the caller has its result
EntryDone ==
    /\ ep.pc = "returned"
    /\ ep' = EpIdle
    /\ UNCHANGED <<log_level, pipeline_vars, nz, qa, svc, db, agg, runs>>

InitEntry ==
    /\ log_level \in LogLevels
    /\ PipelineIdle
    /\ nz = NzIdle
    /\ qa = QaIdle
    /\ ep = EpIdle
    /\ svc = SvcIdle
    /\ db = EmptyStore
    /\ agg = AggIdle
    /\ runs = NoRuns

NextEntry ==
    \/ QuickStart
    \/ TargetedStart
    \/ \E n \in 2..4 : EntryCall(n)
    \/ QuickReturnProfile
    \/ QuickReturnCareer
    \/ TargetedReturn
    \/ EntryDone

SpecEntry == InitEntry /\ [][NextEntry]_vars

(***************************************************************************)
(* AnalyticsService: the dashboard summary, the skill trends and the       *)
(* career analytics.  Rates and scores are in hundredths.                  *)
(***************************************************************************)
\* round(x, 1) of x = q / 200, in tenths: the nearest tenth; when x lies
\* halfway between two tenths the binary value of the float decides, so
\* either neighbour can come out
RoundToTenth(q) ==
    IF q % 20 < 10 THEN {q \div 20}
    ELSE IF q % 20 > 10 THEN {q \div 20 + 1}
    ELSE {q \div 20, q \div 20 + 1}

\* mutant of CalculateSystemHealthScore: the sum of the two rates is not halved
HealthScoreNotHalved(cv_stats, interview_stats) ==
    RoundToTenth(2 * (Hundredths(DictGetOr(cv_stats, "success_rate", JInt(0)))
                      + Hundredths(DictGetOr(interview_stats, "completion_rate", JInt(0)))))

\* _calculate_system_health_score: the values round((success_rate +
\* completion_rate) / 2, 1) can take, in tenths
CalculateSystemHealthScore(cv_stats, interview_stats) ==
    RoundToTenth(Hundredths(DictGetOr(cv_stats, "success_rate", JInt(0)))
                 + Hundredths(DictGetOr(interview_stats, "completion_rate", JInt(0))))

\* the rates the statistics may carry: none, or a percentage
RateValues ==
    {JNull, JInt(0), JFloat(3333), JFloat(5000), JFloat(8500), JFloat(8510), JFloat(9500),
     JFloat(9525), JFloat(10000)}

CvStatsSamples ==
    {<<Member("total_cvs_processed", JInt(100))>> \o OptMember("success_rate", r)
        \o <<Member("average_processing_time", JFloat(250))>> : r \in RateValues}

InterviewStatsSamples ==
    {<<Member("total_interview_sessions", JInt(50))>> \o OptMember("completion_rate", r) :
        r \in RateValues}

\* _generate_dashboard_summary(cv_stats, interview_stats)
GenerateDashboardSummary ==
    /\ svc.op = "none"
    /\ \E cv_stats \in CvStatsSamples : \E interview_stats \in InterviewStatsSamples :
       \E health_score \in CalculateSystemHealthScore(cv_stats, interview_stats) :
          svc' = [SvcIdle EXCEPT
                     !.op = "summary",
                     !.cv_stats = cv_stats,
                     !.interview_stats = interview_stats,
                     !.out = Ret(<<>>),
                     !.summary = [total_processed |-> DictGetOr(cv_stats, "total_cvs_processed", JInt(0)),
                                  success_rate |-> DictGetOr(cv_stats, "success_rate", JInt(0)),
                                  total_interviews |-> DictGetOr(interview_stats, "total_interview_sessions", JInt(0)),
                                  avg_processing_time |-> DictGetOr(cv_stats, "average_processing_time", JInt(0)),
                                  health_score |-> health_score]]
    /\ UNCHANGED <<log_level, pipeline_vars, nz, qa, ep, db, agg, runs>>

\* how many CVAnalysis rows a query returns at most
MaxRecords == 2

\* skill.lower()
Lower(skill) ==
    IF skill = "Python" THEN "python"
    ELSE IF skill = "SQL" THEN "sql"
    ELSE IF skill = "Docker" THEN "docker"
    ELSE skill

\* a role_data entry of recommended_roles that is a dict
RoleData(role, confidence) ==
    OptMember("primary_role", role) \o OptMember("confidence_score", confidence)

\* extracted_profile of a row: every nested field well formed
FullProfile ==
    PDict(<<Member("skills", JDict(<<<<<<Word("technical")>>, <<Word("Python")>>, <<Word("SQL")>>>>,
                                     <<<<Word("soft_skills")>>, <<Word("Teamwork")>>>>>>)),
            Member("education", JList(<<<<<<Word("BSc Computer Science")>>>>>>)),
            Member("certifications", JList(<<<<<<Word("AWS Certified Developer")>>>>>>)),
            Member("languages", JList(<<<<<<Word("English")>>>>, <<<<Word("French")>>>>>>))>>)

\* extracted_profile whose certifications is null
ProfileNullCertifications ==
    PDict(<<Member("skills", JDict(<<<<<<Word("technical")>>, <<Word("python")>>>>>>)),
            Member("certifications", JNull)>>)

\* extracted_profile whose skills is a list, not a map
ProfileSkillsList ==
    PDict(<<Member("skills", JList(<<<<<<Word("SQL")>>>>, <<<<Word("Docker")>>>>>>))>>)

\* the CVAnalysis rows the queries may return
CvAnalyses ==
    {[created_month |-> "2024-01", skills |-> <<"Python", "SQL">>,
      recommended_roles |-> <<RoleData(JStr(<<Word("Data Scientist")>>), JFloat(85))>>,
      career_confidence_score |-> JFloat(85),
      extracted_profile |-> FullProfile,
      processing_time |-> JFloat(250), processing_status |-> "completed"],
     [created_month |-> "2024-02", skills |-> <<"python">>,
      recommended_roles |-> <<RoleData(JStr(<<Word("Data Analyst")>>), JFloat(80)),
                              RoleData(JStr(<<Word("Data Scientist")>>), JFloat(45))>>,
      career_confidence_score |-> JFloat(50),
      extracted_profile |-> ProfileNullCertifications,
      processing_time |-> JFloat(0), processing_status |-> "completed"],
     [created_month |-> "2024-02", skills |-> <<"SQL", "Docker">>,
      recommended_roles |-> <<RoleData(JNull, JFloat(150))>>,
      career_confidence_score |-> JFloat(79),
      extracted_profile |-> ProfileSkillsList,
      processing_time |-> JNull, processing_status |-> "failed"],
     [created_month |-> "2024-03", skills |-> <<>>,
      recommended_roles |-> <<>>,
      career_confidence_score |-> JNull,
      extracted_profile |-> PNone,
      processing_time |-> JFloat(150), processing_status |-> "completed"]}

\* result.scalars().all()
QueryResults == UNION {[1..l -> CvAnalyses] : l \in 0..MaxRecords}

\* the (row, position) pairs of the skills the rows mention
SkillMentions(cv_analyses) ==
    UNION {{<<i, j>> : j \in 1..Len(cv_analyses[i].skills)} : i \in 1..Len(cv_analyses)}

\* monthly_skills of _get_skill_trends: a key for the month of every row, and
\* per month the count of each lower-cased skill, as (month, skill, count)
MonthlySkills(cv_analyses) ==
    [months |-> {cv_analyses[i].created_month : i \in 1..Len(cv_analyses)},
     counts |->
        {<<cv_analyses[ij[1]].created_month, Lower(cv_analyses[ij[1]].skills[ij[2]]),
           Cardinality({kl \in SkillMentions(cv_analyses) :
                           /\ cv_analyses[kl[1]].created_month = cv_analyses[ij[1]].created_month
                           /\ Lower(cv_analyses[kl[1]].skills[kl[2]])
                                  = Lower(cv_analyses[ij[1]].skills[ij[2]])})>> :
            ij \in SkillMentions(cv_analyses)}]

\* AttributeError for a method the class does not define
NoAttribute(method) ==
    Raise("AttributeError",
          <<Word("'AnalyticsService' object has no attribute"), SP, Word(method)>>)

\* _get_skill_trends: the rows are grouped by month, then building the
\* result looks up self._identify_trending_skills_up, which AnalyticsService
\* does not define
GetSkillTrends ==
    /\ svc.op = "none"
    /\ \E cv_analyses \in QueryResults :
          svc' = [SvcIdle EXCEPT
                     !.op = "skill_trends",
                     !.records = cv_analyses,
                     !.monthly_skills = MonthlySkills(cv_analyses),
                     !.out = NoAttribute("'_identify_trending_skills_up'")]
    /\ UNCHANGED <<log_level, pipeline_vars, nz, qa, ep, db, agg, runs>>

RECURSIVE RoleScores(_)
\* the scores one row's recommended_roles contribute
RoleScores(roles) ==
    IF roles = <<>> THEN <<>>
    ELSE (IF Truthy(DictGetOr(Head(roles), "confidence_score", JInt(0)))
          THEN <<Hundredths(DictGetOr(Head(roles), "confidence_score", JInt(0)))>>
          ELSE <<>>) \o RoleScores(Tail(roles))

RECURSIVE CollectConfidence(_)
\* confidence_scores of get_career_analytics
CollectConfidence(cv_analyses) ==
    IF cv_analyses = <<>> THEN <<>>
    ELSE RoleScores(Head(cv_analyses).recommended_roles)
         \o (IF Truthy(Head(cv_analyses).career_confidence_score)
             THEN <<Hundredths(Head(cv_analyses).career_confidence_score)>>
             ELSE <<>>)
         \o CollectConfidence(Tail(cv_analyses))

\* get_career_analytics: the scores are collected, then building the result
\* looks up self._calculate_confidence_distribution, which AnalyticsService
\* does not define; the except clause logs and re-raises
GetCareerAnalytics ==
    /\ svc.op = "none"
    /\ \E cv_analyses \in QueryResults :
          svc' = [SvcIdle EXCEPT
                     !.op = "career_analytics",
                     !.records = cv_analyses,
                     !.confidence_scores = CollectConfidence(cv_analyses),
                     !.out = NoAttribute("'_calculate_confidence_distribution'")]
    /\ UNCHANGED <<log_level, pipeline_vars, nz, qa, ep, db, agg, runs>>

\* the caller has its answer
SvcDone ==
    /\ svc.op # "none"
    /\ svc' = SvcIdle
    /\ UNCHANGED <<log_level, pipeline_vars, nz, qa, ep, db, agg, runs>>

InitService ==
    /\ log_level \in LogLevels
    /\ PipelineIdle
    /\ nz = NzIdle
    /\ qa = QaIdle
    /\ ep = EpIdle
    /\ svc = SvcIdle
    /\ db = EmptyStore
    /\ agg = AggIdle
    /\ runs = NoRuns

NextService == GenerateDashboardSummary \/ GetSkillTrends \/ GetCareerAnalytics \/ SvcDone

SpecService == InitService /\ [][NextService]_vars

(***************************************************************************)
(* AnalyticsService on a store: the per-record insights, the skill and     *)
(* career analytics and the sub-queries of the dashboard, while rows are   *)
(* inserted.  A row's id is its position in its table.                     *)
(***************************************************************************)
\* the InterviewSession rows
InterviewSessions == {[completion_status |-> "completed"], [completion_status |-> "draft"]}

\* as if every method cleared the tables it has read
StatementsThenDelete(op) == <<"select", "delete">>

\* the statements a method, or a sub-query of the dashboard, hands to
\* self.db.execute
Statements(op) ==
    IF op \in {"cv_insights", "skill_analytics", "career_analytics", "cv_statistics",
               "interview_statistics", "skill_trends"}
    THEN <<"select">>
    ELSE <<>>

\* the store after a statement: a select leaves it as it is
Execute(store, statement) ==
    IF statement = "select" THEN store
    ELSE IF statement = "delete" THEN EmptyStore
    ELSE store

RECURSIVE Executed(_, _)
Executed(store, statements) ==
    IF statements = <<>> THEN store
    ELSE Executed(Execute(store, Head(statements)), Tail(statements))

\* _analyze_profile_data, _analyze_skills and _generate_improvement_suggestions
\* on a row: len() of a value that has none raises TypeError, .get on a
\* skills value that is no dict raises AttributeError
InsightsOutcome(cv_analysis) ==
    LET profile == cv_analysis.extracted_profile.d
        profile_skills == DictGetOr(profile, "skills", JDict(<<>>))
    IN IF \E f \in {"education", "certifications", "languages", "key_achievements"} :
             ~HasLen(DictGetOr(profile, f, JList(<<>>)))
       THEN Raise("TypeError", <<Word("object of type 'NoneType' has no len()")>>)
       ELSE IF profile_skills.ty # "dict"
       THEN Raise("AttributeError", <<Word("object has no attribute 'get'")>>)
       ELSE Ret(<<>>)

\* len(d.get(key, [])) of a dict of lists
EntryLen(v, key) ==
    IF \E i \in 1..Len(v.xs) : v.xs[i][1] = <<Word(key)>>
    THEN Len(v.xs[CHOOSE i \in 1..Len(v.xs) : v.xs[i][1] = <<Word(key)>>]) - 1
    ELSE 0

NoInsights ==
    [cv_id |-> 0, education_level |-> 0, certifications_count |-> 0, languages_count |-> 0,
     total_skills |-> 0, technical_skills_count |-> 0, suggestions |-> {}]

\* the insights dict of generate_cv_insights, for a row it can be built from
Insights(cv_analysis_id, cv_analysis) ==
    LET profile == cv_analysis.extracted_profile.d
        profile_skills == DictGetOr(profile, "skills", JDict(<<>>))
    IN [cv_id |-> cv_analysis_id,
        education_level |-> PyLen(DictGetOr(profile, "education", JList(<<>>))),
        certifications_count |-> PyLen(DictGetOr(profile, "certifications", JList(<<>>))),
        languages_count |-> PyLen(DictGetOr(profile, "languages", JList(<<>>))),
        total_skills |-> Len(cv_analysis.skills),
        technical_skills_count |-> EntryLen(profile_skills, "technical"),
        suggestions |->
            (IF EntryLen(profile_skills, "technical") = 0 THEN {"technical skills"} ELSE {})
            \cup (IF ~Truthy(DictGetOr(profile, "certifications", JList(<<>>)))
                  THEN {"certifications"} ELSE {})
            \cup (IF PyLen(DictGetOr(profile, "languages", JList(<<>>))) < 2
                  THEN {"languages"} ELSE {})]

\* answers a missing record as it answers any other failure
StatusCodeNotFoundForAll(out) == IF out.k = "ret" THEN 200 ELSE 404

\* get_cv_insights of the dashboard routes: the status the client gets
StatusCode(out) ==
    IF out.k = "ret" THEN 200
    ELSE IF out.exc = "ValueError" THEN 404
    ELSE 500

\* generate_cv_insights(cv_analysis_id), called by the route
GenerateCvInsights ==
    /\ agg.op = "none"
    /\ \E cv_analysis_id \in 1..(MaxRecords + 1) :
          LET found == cv_analysis_id \in 1..Len(db.cv_analyses)
              out == IF ~found
                     THEN Raise("ValueError", <<Word("CV analysis not found:"), SP,
                                                Word(ToString(cv_analysis_id))>>)
                     ELSE InsightsOutcome(db.cv_analyses[cv_analysis_id])
          IN agg' = [op |-> "cv_insights",
                     cv_analysis_id |-> cv_analysis_id,
                     records |-> db.cv_analyses,
                     out |-> out,
                     insights |-> IF out.k = "ret"
                                  THEN Insights(cv_analysis_id, db.cv_analyses[cv_analysis_id])
                                  ELSE NoInsights,
                     status_code |-> StatusCode(out)]
    /\ db' = Executed(db, Statements("cv_insights"))
    /\ UNCHANGED <<log_level, pipeline_vars, nz, qa, ep, svc, runs>>

RECURSIVE AllSkills(_)
\* all_skills: the lower-cased skills of the rows, in row order
AllSkills(cv_analyses) ==
    IF cv_analyses = <<>> THEN <<>>
    ELSE [i \in 1..Len(Head(cv_analyses).skills) |-> Lower(Head(cv_analyses).skills[i])]
         \o AllSkills(Tail(cv_analyses))

RECURSIVE Keys(_)
\* the keys of a dict filled in this order: each once, at its first place
Keys(s) ==
    IF s = <<>> THEN <<>>
    ELSE LET before == Keys(SubSeq(s, 1, Len(s) - 1))
         IN IF \E i \in 1..Len(before) : before[i] = s[Len(s)]
            THEN before
            ELSE Append(before, s[Len(s)])

\* skill_frequency.items()
SkillFrequency(cv_analyses) ==
    LET all == AllSkills(cv_analyses)
        keys == Keys(all)
    IN [i \in 1..Len(keys) |->
           <<keys[i], Cardinality({j \in 1..Len(all) : all[j] = keys[i]})>>]

\* sorted(items, key=lambda x: x[1], reverse=True): equal counts keep their order
SortedByFrequency(items) ==
    LET place(i) == 1 + Cardinality({j \in 1..Len(items) :
                                        \/ items[j][2] > items[i][2]
                                        \/ (items[j][2] = items[i][2] /\ j < i)})
    IN [k \in 1..Len(items) |-> items[CHOOSE i \in 1..Len(items) : place(i) = k]]

\* [:20]
TopSkillsLimit == 20

TopSkills(cv_analyses) == Take(SortedByFrequency(SkillFrequency(cv_analyses)), TopSkillsLimit)

\* cv.extracted_profile.get('skills', {}), {} for a row without a profile
ProfileSkills(cv_analysis) == DictGetOr(cv_analysis.extracted_profile.d, "skills", JDict(<<>>))

\* the (row, category, position) of every skill a row's profile lists under
\* a category, for the profiles whose skills is a dict
CategoryMentions(cv_analyses) ==
    UNION {UNION {{<<i, c, j>> : j \in 2..Len(ProfileSkills(cv_analyses[i]).xs[c])} :
                  c \in 1..Len(ProfileSkills(cv_analyses[i]).xs)} :
           i \in {i \in 1..Len(cv_analyses) : ProfileSkills(cv_analyses[i]).ty = "dict"}}

\* the category of a mention, and its lower-cased skill
MentionCategory(cv_analyses, m) == ProfileSkills(cv_analyses[m[1]]).xs[m[2]][1]

MentionSkill(cv_analyses, m) ==
    LET skill == ProfileSkills(cv_analyses[m[1]]).xs[m[2]][m[3]]
    IN [i \in 1..Len(skill) |-> Word(Lower(skill[i].s))]

\* skill_categories: per category the count of each lower-cased skill, as
\* (category, skill, count)
SkillCategories(cv_analyses) ==
    {<<MentionCategory(cv_analyses, m), MentionSkill(cv_analyses, m),
       Cardinality({o \in CategoryMentions(cv_analyses) :
                       /\ MentionCategory(cv_analyses, o) = MentionCategory(cv_analyses, m)
                       /\ MentionSkill(cv_analyses, o) = MentionSkill(cv_analyses, m)})>> :
        m \in CategoryMentions(cv_analyses)}

\* get_skill_analytics: the frequency table, the ranking and the category
\* table are built, then building the result looks up
\* self._calculate_skill_distribution, which AnalyticsService does not define
GetSkillAnalytics ==
    /\ agg.op = "none"
    /\ agg' = [op |-> "skill_analytics",
               records |-> db.cv_analyses,
               top_skills |-> TopSkills(db.cv_analyses),
               skill_categories |-> SkillCategories(db.cv_analyses),
               out |-> NoAttribute("'_calculate_skill_distribution'")]
    /\ db' = Executed(db, Statements("skill_analytics"))
    /\ UNCHANGED <<log_level, pipeline_vars, nz, qa, ep, svc, runs>>

\* get_career_analytics on the rows of the store
GetCareerAnalyticsOnStore ==
    /\ agg.op = "none"
    /\ agg' = [op |-> "career_analytics",
               records |-> db.cv_analyses,
               confidence_scores |-> CollectConfidence(db.cv_analyses),
               out |-> NoAttribute("'_calculate_confidence_distribution'")]
    /\ db' = Executed(db, Statements("career_analytics"))
    /\ UNCHANGED <<log_level, pipeline_vars, nz, qa, ep, svc, runs>>

RECURSIVE Sum(_)
Sum(s) == IF s = <<>> THEN 0 ELSE Head(s) + Sum(Tail(s))

\* round(a / b, 2) in hundredths, a in hundredths: the nearest one; halfway
\* between two the binary value of the float decides
RoundedQuotients(a, b) ==
    IF 2 * (a % b) < b THEN {a \div b}
    ELSE IF 2 * (a % b) > b THEN {a \div b + 1}
    ELSE {a \div b, a \div b + 1}

\* [cv.processing_time for cv in cv_analyses if cv.processing_time], in hundredths
ProcessingTimes(cv_analyses) ==
    LET kept == SelectSeq(cv_analyses, LAMBDA cv : Truthy(cv.processing_time))
    IN [i \in 1..Len(kept) |-> Hundredths(kept[i].processing_time)]

\* the values "average_processing_time" can take: round(np.mean(...), 2), nan
\* for the mean of no value, 0 when there is no row
AverageProcessingTimes(cv_analyses) ==
    IF cv_analyses = <<>> THEN {[k |-> "number", n |-> 0]}
    ELSE IF ProcessingTimes(cv_analyses) = <<>> THEN {[k |-> "nan", n |-> 0]}
    ELSE {[k |-> "number", n |-> q] :
             q \in RoundedQuotients(Sum(ProcessingTimes(cv_analyses)),
                                    Len(ProcessingTimes(cv_analyses)))}

\* len([cv for cv in cv_analyses if cv.processing_status == "completed"])
SuccessfulAnalyses(cv_analyses) ==
    Len(SelectSeq(cv_analyses, LAMBDA cv : cv.processing_status = "completed"))

\* "success_rate": successful / total * 100 as the fraction num / den, 0 when
\* there is no row
SuccessRate(cv_analyses) ==
    IF Len(cv_analyses) > 0
    THEN [num |-> SuccessfulAnalyses(cv_analyses) * 100, den |-> Len(cv_analyses)]
    ELSE [num |-> 0, den |-> 1]

\* _calculate_completion_rate, in hundredths
CompletionRates(sessions) ==
    IF sessions = <<>> THEN {0}
    ELSE RoundedQuotients(
             Len(SelectSeq(sessions, LAMBDA session : session.completion_status = "completed"))
                 * 10000,
             Len(sessions))

\* get_dashboard_data, first sub-query: cv_stats = await self._get_cv_statistics(filters)
DashboardCvStatistics ==
    /\ agg.op = "none"
    /\ \E average \in AverageProcessingTimes(db.cv_analyses) :
          agg' = [op |-> "dashboard", step |-> 1,
                  records |-> db.cv_analyses,
                  cv_stats |-> [total_cvs_processed |-> Len(db.cv_analyses),
                                successful_analyses |-> SuccessfulAnalyses(db.cv_analyses),
                                success_rate |-> SuccessRate(db.cv_analyses),
                                average_processing_time |-> average],
                  interview_stats |-> [total_interview_sessions |-> 0, completion_rate |-> 0],
                  monthly_skills |-> [months |-> {}, counts |-> {}],
                  out |-> NoCall]
    /\ db' = Executed(db, Statements("cv_statistics"))
    /\ UNCHANGED <<log_level, pipeline_vars, nz, qa, ep, svc, runs>>

\* second sub-query: interview_stats = await self._get_interview_statistics(...)
DashboardInterviewStatistics ==
    /\ agg.op = "dashboard"
    /\ agg.step = 1
    /\ \E completion_rate \in CompletionRates(db.interview_sessions) :
          agg' = [agg EXCEPT
                     !.step = 2,
                     !.interview_stats =
                         [total_interview_sessions |-> Len(db.interview_sessions),
                          completion_rate |-> completion_rate]]
    /\ db' = Executed(db, Statements("interview_statistics"))
    /\ UNCHANGED <<log_level, pipeline_vars, nz, qa, ep, svc, runs>>

\* third sub-query: skill_trends = await self._get_skill_trends(filters), which
\* raises AttributeError; the except clause of get_dashboard_data logs it and
\* re-raises, before any later block or the summary is built
DashboardSkillTrends ==
    /\ agg.op = "dashboard"
    /\ agg.step = 2
    /\ agg' = [agg EXCEPT
                  !.step = 3,
                  !.monthly_skills = MonthlySkills(db.cv_analyses),
                  !.out = NoAttribute("'_identify_trending_skills_up'")]
    /\ db' = Executed(db, Statements("skill_trends"))
    /\ UNCHANGED <<log_level, pipeline_vars, nz, qa, ep, svc, runs>>

\* the caller of the method has its answer; the service object is dropped
AggDone ==
    /\ agg.op # "none"
    /\ agg.op = "dashboard" => agg.step = 3
    /\ agg' = AggIdle
    /\ UNCHANGED <<log_level, pipeline_vars, nz, qa, ep, svc, db, runs>>

\* db_session.add(cv_analysis); await db_session.commit()
InsertAnalysis ==
    /\ Len(db.cv_analyses) < MaxRecords
    /\ \E cv_analysis \in CvAnalyses :
          db' = [db EXCEPT !.cv_analyses = Append(@, cv_analysis)]
    /\ UNCHANGED <<log_level, pipeline_vars, nz, qa, ep, svc, agg, runs>>

\* db_session.add(interview_session); await db_session.commit(), for a
\* session of an analysis of the store
InsertSession ==
    /\ Len(db.cv_analyses) > 0
    /\ Len(db.interview_sessions) < MaxRecords
    /\ \E interview_session \in InterviewSessions :
          db' = [db EXCEPT !.interview_sessions = Append(@, interview_session)]
    /\ UNCHANGED <<log_level, pipeline_vars, nz, qa, ep, svc, agg, runs>>

InitStore ==
    /\ log_level \in LogLevels
    /\ PipelineIdle
    /\ nz = NzIdle
    /\ qa = QaIdle
    /\ ep = EpIdle
    /\ svc = SvcIdle
    /\ db = EmptyStore
    /\ agg = AggIdle
    /\ runs = NoRuns

NextStore ==
    \/ GenerateCvInsights
    \/ GetSkillAnalytics
    \/ GetCareerAnalyticsOnStore
    \/ DashboardCvStatistics
    \/ DashboardInterviewStatistics
    \/ DashboardSkillTrends
    \/ AggDone
    \/ InsertAnalysis
    \/ InsertSession

SpecStore == InitStore /\ [][NextStore]_vars

(***************************************************************************)
(* The pipeline.                                                           *)
(***************************************************************************)
Init ==
    /\ log_level \in LogLevels
    /\ PipelineIdle
    /\ nz = NzIdle
    /\ qa = QaIdle
    /\ ep = EpIdle
    /\ svc = SvcIdle
    /\ db = EmptyStore
    /\ agg = AggIdle
    /\ runs = NoRuns

Next ==
    \/ StartRun
    \/ \E n \in 1..4 : CallStage(n)
    \/ ReturnStage1
    \/ \E n \in 2..4 : ReturnStage(n)
    \/ Compile
    \/ NewRun

Spec == Init /\ [][Next]_vars

(***************************************************************************)
(* The pipeline with time: seconds pass while a model call is outstanding, *)
(* and the capability need not respond.                                    *)
(***************************************************************************)
\* AI_TIMEOUT = int(os.getenv("AI_TIMEOUT", "30"))
AI_TIMEOUT == 30

\* the waiting is followed up to this many seconds
MaxWait == 40

\* the seconds between two looks at the clock
TickSeconds == 10

\* time passes while self._model.generate_content(prompt) of stage n has
\* not returned: the call is made without a timeout (AI_TIMEOUT is read by
\* no tool), so nothing ends the wait but the capability
Tick(n) ==
    /\ n \in 2..4
    /\ active = n
    /\ stages[n].waited < MaxWait
    /\ stages' = [stages EXCEPT ![n].waited = @ + TickSeconds]
    /\ UNCHANGED <<log_level, pc, doc, raw_text, profile_data, career_recommendations,
                   interview_questions, calls, active, results, harness_vars>>

NextTimeout == Next \/ \E n \in 2..4 : Tick(n)

\* the coroutine takes its own steps whenever it can; whether and when the
\* capability responds (ReturnStage) is up to the capability
SpecTimeout ==
    /\ Init
    /\ [][NextTimeout]_vars
    /\ \A n \in 1..4 : WF_vars(CallStage(n))
    /\ WF_vars(ReturnStage1)
    /\ WF_vars(Compile)

(***************************************************************************)
(* Concurrent calls of process_cv_comprehensive on the one agent,          *)
(* enhanced_cv_agent = EnhancedCVAgent(): each request runs the method in  *)
(* its own frame; the agent holds the four tools and nothing else.         *)
(***************************************************************************)
\* the requests in flight
RunIds == {"a", "b"}

\* the frame of a call not yet made: its position, its locals, the model
\* responses its stages received, what it returned, and the requests that
\* were in progress while it took a step
FrameIdle ==
    [pc |-> "idle", doc |-> NoDocument, raw_text |-> <<>>, profile_data |-> <<>>,
     career_recommendations |-> <<>>, interview_questions |-> <<>>,
     gens |-> <<>>, results |-> NoResults, seen |-> {}]

\* mutant of Frame: the locals are kept on the shared agent, so every
\* request reads those of request "a"
FrameOnAgent(r) == runs["a"]

\* where the statements of request r read their locals: file_path, raw_text,
\* profile_data, career_recommendations and interview_questions are
\* parameters and local variables of the call
Frame(r) == runs[r]

\* what the model answers a request at a stage: a response the tool turns
\* into a JSON object, or no response within the deadline
RunResponses(variant) ==
    {CHOOSE gen \in GenOutcomes(variant) :
         /\ gen.k = "ret"
         /\ ParseJsonSafely(ToolRun(variant, gen, CRITICAL).text).tag = "dict",
     CHOOSE gen \in GenOutcomes(variant) :
         gen.k = "raise" /\ gen.exc = "DeadlineExceeded"}

\* the other requests that are between their first statement and their return
OthersInProgress(r) == {q \in RunIds \ {r} : runs[q].pc \notin {"idle", "returned"}}

\* request r calls process_cv_comprehensive(file_path, ...)
RunStart(r) ==
    /\ runs[r].pc = "idle"
    /\ \E d \in Documents :
          runs' = [runs EXCEPT ![r] = [FrameIdle EXCEPT !.pc = "stage1", !.doc = d,
                                                        !.seen = OthersInProgress(r)]]
    /\ UNCHANGED <<log_level, pipeline_vars, nz, qa, ep, svc, db, agg>>

\* step 1 of request r and the "Error" check on its text
RunExtract(r) ==
    /\ runs[r].pc = "stage1"
    /\ runs' = [runs EXCEPT ![r] =
                   [runs[r] EXCEPT
                       !.raw_text = ConvertPdfSync(Frame(r).doc),
                       !.results = IF TextHasError(ConvertPdfSync(Frame(r).doc))
                                   THEN ProcessExcept(ExtractionFailed(ConvertPdfSync(Frame(r).doc)))
                                   ELSE @,
                       !.pc = IF TextHasError(ConvertPdfSync(Frame(r).doc))
                              THEN "returned" ELSE NextStage(1),
                       !.seen = @ \cup OthersInProgress(r)]]
    /\ UNCHANGED <<log_level, pipeline_vars, nz, qa, ep, svc, db, agg>>

\* step n of 2, 3, 4 of request r: the tool returns its text, or raises into
\* the except clause
RunStage(r, n) ==
    /\ n \in 2..4
    /\ runs[r].pc = StageLabel(n)
    /\ \E gen \in RunResponses(StageVariant(n)) :
          LET out == ToolRun(StageVariant(n), gen, log_level) IN
          runs' = [runs EXCEPT ![r] =
                      [runs[r] EXCEPT
                          !.gens = Append(@, gen),
                          !.profile_data = IF n = 2 /\ out.k = "ret" THEN out.text ELSE @,
                          !.career_recommendations = IF n = 3 /\ out.k = "ret" THEN out.text ELSE @,
                          !.interview_questions = IF n = 4 /\ out.k = "ret" THEN out.text ELSE @,
                          !.results = IF out.k = "ret" THEN @ ELSE ProcessExcept(out),
                          !.pc = IF out.k = "ret" THEN NextStage(n) ELSE "returned",
                          !.seen = @ \cup OthersInProgress(r)]]
    /\ UNCHANGED <<log_level, pipeline_vars, nz, qa, ep, svc, db, agg>>

\* steps 5 to 7 of request r: the results dict is compiled and returned
RunCompile(r) ==
    /\ runs[r].pc = "compile"
    /\ runs' = [runs EXCEPT ![r] =
                   [runs[r] EXCEPT
                       !.results = CompletedResults(Frame(r).raw_text, Frame(r).profile_data,
                                                    Frame(r).career_recommendations,
                                                    Frame(r).interview_questions),
                       !.pc = "returned",
                       !.seen = @ \cup OthersInProgress(r)]]
    /\ UNCHANGED <<log_level, pipeline_vars, nz, qa, ep, svc, db, agg>>

\* the caller of request r has its result; the frame is gone
RunDone(r) ==
    /\ runs[r].pc = "returned"
    /\ runs' = [runs EXCEPT ![r] = FrameIdle]
    /\ UNCHANGED <<log_level, pipeline_vars, nz, qa, ep, svc, db, agg>>

InitConcurrent ==
    /\ log_level \in LogLevels
    /\ PipelineIdle
    /\ nz = NzIdle
    /\ qa = QaIdle
    /\ ep = EpIdle
    /\ svc = SvcIdle
    /\ db = EmptyStore
    /\ agg = AggIdle
    /\ runs = [r \in RunIds |-> FrameIdle]

NextConcurrent ==
    \E r \in RunIds :
        \/ RunStart(r)
        \/ RunExtract(r)
        \/ \E n \in 2..4 : RunStage(r, n)
        \/ RunCompile(r)
        \/ RunDone(r)

SpecConcurrent == InitConcurrent /\ [][NextConcurrent]_vars

(***************************************************************************)
(* Properties of the pipeline (checked under Spec).                        *)
(***************************************************************************)
\* t ends with suffix
EndsWith(t, suffix) ==
    /\ Len(suffix) <= Len(t)
    /\ SubSeq(t, Len(t) - Len(suffix) + 1, Len(t)) = suffix

\* s is the beginning of t
IsPrefix(s, t) == Len(s) <= Len(t) /\ SubSeq(t, 1, Len(s)) = s

\* the call has handed its caller something
Returned == pc = "returned"

\* C1: every call of process_cv_comprehensive returns a dict whose status is
\* "completed" or "failed", a failed one carries the error string (in
\* processing_info and at top level), and no exception leaves the call,
\* whatever the stages return or raise.
C1_AlwaysWellFormedResult ==
    /\ results.k # "raised"
    /\ Returned =>
          /\ results.k = "returned"
          /\ "processing_info" \in results.keys
          /\ results.status \in {"completed", "failed"}
          /\ results.status = "failed" =>
                /\ "error" \in results.keys
                /\ results.error # <<>>
                /\ results.info_error = results.error

\* C1 witness: a run in which a tool raised out of stage 3 was returned as failed
C1_Witness ==
    /\ Returned
    /\ stages[3].out.k = "raise"
    /\ results.status = "failed"

\* the "Error" check of stage 1 fired: the run ended right after stage 1
\* returned a text holding "Error"
Stage1Raised ==
    /\ Returned
    /\ stages[1].out.k = "ret"
    /\ TextHasError(stages[1].out.text)

\* C2: when stage 1 raises its extraction error, the dict returned has status
\* "failed", an error that ends with the extractor's message, and no raw_text,
\* profile, recommendation, question or analytics entry.
C2_ExtractionFailureEnvelope ==
    Stage1Raised =>
        /\ results.k = "returned"
        /\ results.status = "failed"
        /\ EndsWith(results.error, stages[1].out.text)
        /\ results.keys = {"processing_info", "error"}
        /\ results.raw_text = <<>>
        /\ results.profile_analysis = PNone
        /\ results.career_recommendations = PNone
        /\ results.interview_questions = PNone
        /\ results.analytics = NoAnalytics

\* C2 witness: the conversion of an existing file raised, and the run was returned
C2_Witness ==
    /\ Stage1Raised
    /\ doc.exists
    /\ doc.convert.k = "raise"

\* C3 (as claimed): whenever the extractor reports a content error (file not
\* found, conversion failure, or no text extracted) none of stages 2, 3, 4 is
\* invoked and the run is returned as failed.
C3_ContentErrorAborts ==
    (stages[1].out.k = "ret" /\ ExtractorReportedError(doc)) =>
        /\ \A n \in 2..4 : ~stages[n].called
        /\ pc = "returned"
        /\ results.status = "failed"

\* the model call of stage n failed or timed out
GenFailed(n) == stages[n].gen.k = "raise"

\* C4 (as claimed): a run in which the generative call of stage 2, 3 or 4
\* failed or timed out is returned with status "failed" and error set.
C4_CallErrorFailsRun ==
    (Returned /\ \E n \in 2..4 : GenFailed(n)) =>
        /\ results.status = "failed"
        /\ "error" \in results.keys

\* the stages invoked and not yet returned or raised
InProgress == {n \in 1..4 : stages[n].called /\ stages[n].out.k = "none"}

\* C5: within a run the stages are invoked in the order 1, 2, 3, 4, each at
\* most once, a stage only after every earlier one has returned, and never
\* two at once.
C5_StagesInOrder ==
    /\ IsPrefix(calls, <<1, 2, 3, 4>>)
    /\ Cardinality(InProgress) <= 1
    /\ \A i \in 1..Len(calls) : \A j \in 1..(i - 1) : stages[calls[j]].out.k = "ret"
    /\ \A n \in 1..4 : stages[n].called <=> (\E i \in 1..Len(calls) : calls[i] = n)

\* C5 witness: all four stages were invoked and the run completed
C5_Witness ==
    /\ calls = <<1, 2, 3, 4>>
    /\ Returned
    /\ results.status = "completed"

\* the model answered stage 2 with a text its normalizer cannot parse
Stage2FellBack ==
    /\ stages[2].gen.k = "ret"
    /\ ~ParsesAsObject(Strip(stages[2].gen.text))

\* C6 (as claimed): when stage 2's normalizer falls back the run does not
\* abort: stages 3 and 4 are invoked with the text stage 2 returned, the run
\* is returned as completed, and its profile_analysis is that raw text.
C6_FallbackDoesNotAbort ==
    (Returned /\ Stage2FellBack) =>
        /\ stages[2].out = Ret(Strip(stages[2].gen.text))
        /\ stages[3].called /\ stages[3].input = stages[2].out.text
        /\ stages[4].called /\ stages[4].input = stages[2].out.text
        /\ results.status = "completed"
        /\ results.profile_analysis = PStr(stages[2].out.text)

\* C29 (as claimed): a run whose document was extracted successfully (the
\* file exists, converts, and has text) is passed on to stage 2 whatever the
\* text contains, and is never returned as an extraction failure.
C29_ExtractedTextAlwaysPassedOn ==
    (Returned /\ stages[1].out.k = "ret" /\ ~ExtractorReportedError(doc)) =>
        /\ stages[2].called
        /\ ~IsPrefix(<<Word("PDF extraction failed:")>>, results.error)

\* C24 (as claimed): no model call stays outstanding for longer than the
\* configured timeout, and every run that was started is eventually
\* returned to its caller.
C24_CallsBoundedRunsReturn ==
    /\ [](\A n \in 2..4 : stages[n].waited <= AI_TIMEOUT)
    /\ ((pc # "idle") ~> Returned)

(***************************************************************************)
(* Properties of the normalizers (checked under SpecNormalize).            *)
(***************************************************************************)
\* the normalizer has been applied to nz.raw
Normalized == nz.pass >= 1

\* the object a returned text holds
ObjectOf(t) == JsonLoadsObject(BoundedSubstring(t))

\* the required fields the parsed raw text lacks
MissingFields(variant, raw) ==
    {f \in {Required(variant)[i] : i \in 1..Len(Required(variant))} : ~DictHas(ObjectOf(raw), f)}

\* C7 (as claimed): the profile and the recommendation normalizer return the
\* raw text itself, and raise nothing, when it has no '{' or no '}' or its
\* bounded substring does not parse as an object.
C7_FallbackReturnsRawText ==
    (Normalized /\ nz.variant \in {"profile", "career"} /\ ~ParsesAsObject(nz.raw)) =>
        nz.out1 = Ret(nz.raw)

\* C8: normalizing the text a normalizer returned returns that same text, for
\* the profile, recommendation and question normalizers alike.
C8_NormalizeIdempotent ==
    nz.pass = 2 => nz.out2 = nz.out1

\* C8 witness: the question normalizer returned a text other than its input,
\* and that text was normalized again
C8_Witness ==
    /\ nz.pass = 2
    /\ nz.variant = "question"
    /\ nz.out1.text # nz.raw

\* the value a missing required field has in the normalized object: {} for
\* personal_info, skills and the two distributions, 0.0 for
\* total_experience_years, 0 for estimated_duration, [] for the rest
\* (total_questions gets 0 too and is then set to the length of questions,
\* see C10)
ExpectedDefault(f) ==
    IF f \in {"personal_info", "skills", "difficulty_distribution", "category_distribution"}
    THEN JDict(<<>>)
    ELSE IF f = "total_experience_years" THEN JFloat(0)
    ELSE IF f = "estimated_duration" THEN JInt(0)
    ELSE JList(<<>>)

\* the raw text parses as an object and nothing but a missing field could stop
\* the normalizer (the question normalizer raises TypeError on a questions
\* value that has no len())
ParseableInput ==
    /\ Normalized
    /\ ParsesAsObject(nz.raw)
    /\ (nz.variant = "question" /\ DictHas(ObjectOf(nz.raw), "questions"))
           => HasLen(DictGet(ObjectOf(nz.raw), "questions"))

\* the normalizer returned an object that has every required field, the
\* missing ones with their defaults
DefaultsInjected ==
    /\ nz.out1.k = "ret"
    /\ JsonObjectParses(nz.out1.text)
    /\ \A i \in 1..Len(Required(nz.variant)) : DictHas(ObjectOf(nz.out1.text), Required(nz.variant)[i])
    /\ \A f \in MissingFields(nz.variant, nz.raw) \ {"total_questions"} :
           DictGet(ObjectOf(nz.out1.text), f) = ExpectedDefault(f)

C10_TotalQuestionsIsLength ==
    (Normalized /\ nz.variant = "question" /\ nz.out1.k = "ret") =>
        /\ JsonObjectParses(nz.out1.text)
        /\ DictHas(ObjectOf(nz.out1.text), "questions")
        /\ DictHas(ObjectOf(nz.out1.text), "total_questions")
        /\ DictGet(ObjectOf(nz.out1.text), "questions").ty = "list" =>
               DictGet(ObjectOf(nz.out1.text), "total_questions")
                   = JInt(Len(DictGet(ObjectOf(nz.out1.text), "questions").xs))

\* C10 witness: the model gave two questions and total_questions = 15
C10_Witness ==
    /\ Normalized
    /\ nz.variant = "question"
    /\ ParsesAsObject(nz.raw)
    /\ DictHas(ObjectOf(nz.raw), "total_questions")
    /\ DictGet(ObjectOf(nz.raw), "total_questions") = JInt(15)
    /\ DictHas(ObjectOf(nz.raw), "questions")
    /\ Len(DictGet(ObjectOf(nz.raw), "questions").xs) = 2
    /\ nz.out1.k = "ret"

\* the lines of a response the question fallback keeps: the non-blank ones
\* among the first MaxFallbackLines lines of the stripped text
KeptLines(raw) ==
    SelectSeq(Take(SplitLines(Strip(raw)), MaxFallbackLines), LAMBDA line : Strip(line) # <<>>)

\* the questions list of the object a returned text holds
QuestionsOf(t) == DictGet(ObjectOf(t), "questions").xs

\* C11 (as claimed): when the response is not valid structured text the
\* question normalizer returns a synthesised question set: one question per
\* kept line, each with category "General" and difficulty "Medium",
\* total_questions = n and estimated_duration = 4 * n for its n questions;
\* three non-blank lines give 3 and 12.
C11_FallbackSynthesizesQuestionSet ==
    (Normalized /\ nz.variant = "question" /\ ~ParsesAsObject(nz.raw)) =>
        /\ nz.out1.k = "ret"
        /\ JsonObjectParses(nz.out1.text)
        /\ Len(QuestionsOf(nz.out1.text)) = Len(KeptLines(nz.raw))
        /\ \A i \in 1..Len(QuestionsOf(nz.out1.text)) :
               /\ QuestionsOf(nz.out1.text)[i][1] = Strip(KeptLines(nz.raw)[i])
               /\ QuestionsOf(nz.out1.text)[i][2] = <<Word("General")>>
               /\ QuestionsOf(nz.out1.text)[i][3] = <<Word("Medium")>>
        /\ DictGet(ObjectOf(nz.out1.text), "total_questions")
               = JInt(Len(QuestionsOf(nz.out1.text)))
        /\ DictGet(ObjectOf(nz.out1.text), "estimated_duration")
               = JInt(4 * Len(QuestionsOf(nz.out1.text)))
        /\ nz.raw = ThreeQuestionLines =>
               /\ DictGet(ObjectOf(nz.out1.text), "total_questions") = JInt(3)
               /\ DictGet(ObjectOf(nz.out1.text), "estimated_duration") = JInt(12)

\* the non-blank lines of a response, in order
NonEmptyLines(raw) == SelectSeq(SplitLines(Strip(raw)), LAMBDA line : Strip(line) # <<>>)

\* C27 (as claimed): when the question fallback synthesises a question set,
\* its questions are the first min(15, n) of the n non-blank lines of the
\* response, in line order: the blank lines are dropped before the cap is
\* applied.
C27_FallbackCapsNonEmptyLines ==
    (Normalized /\ nz.variant = "question" /\ ~ParsesAsObject(nz.raw) /\ nz.out1.k = "ret") =>
        /\ Len(QuestionsOf(nz.out1.text))
               = (IF Len(NonEmptyLines(nz.raw)) < 15 THEN Len(NonEmptyLines(nz.raw)) ELSE 15)
        /\ \A i \in 1..Len(QuestionsOf(nz.out1.text)) :
               QuestionsOf(nz.out1.text)[i][1] = Strip(NonEmptyLines(nz.raw)[i])

(***************************************************************************)
(* Properties of quick analytics (checked under SpecAnalytics).            *)
(***************************************************************************)
\* the parsed profile and recommendation the helpers were given
QaProfile == ParseJsonSafely(qa.profile_data)
QaCareer == ParseJsonSafely(qa.career_data)

\* the field is there and its value is not empty
Populated(d, f) ==
    DictHas(d, f) /\ DictGet(d, f) \notin {JNull, JDict(<<>>), JList(<<>>), JStr(<<>>)}

\* how many of personal_info, skills, experience, education are populated
PopulatedCount(d) ==
    Cardinality({f \in {"personal_info", "skills", "experience", "education"} : Populated(d, f)})

\* C12: completeness is 100 * (populated ones among personal_info, skills,
\* experience, education) / 4 to one decimal (here in tenths of a percent)
\* for a profile object and 0 for anything else; personal_info and skills
\* alone give 50.0; quick analytics reports that value.
C12_CompletenessIsQuarterSteps ==
    qa.done =>
        /\ QaProfile.tag = "dict" => 4 * qa.completeness = 1000 * PopulatedCount(QaProfile.d)
        /\ QaProfile.tag # "dict" => qa.completeness = 0
        /\ (/\ QaProfile.tag = "dict"
            /\ {f \in {"personal_info", "skills", "experience", "education"} :
                    Populated(QaProfile.d, f)} = {"personal_info", "skills"})
               => qa.completeness = 500
        /\ qa.analytics.k = "ok" => qa.analytics.profile_completeness = qa.completeness

\* C12 witness: a normalized profile with personal_info and skills populated
\* and experience and education empty was scored 50.0
C12_Witness ==
    /\ qa.done
    /\ QaProfile.tag = "dict"
    /\ Populated(QaProfile.d, "personal_info") /\ Populated(QaProfile.d, "skills")
    /\ DictHas(QaProfile.d, "experience") /\ DictGet(QaProfile.d, "experience") = JList(<<>>)
    /\ DictHas(QaProfile.d, "education") /\ DictGet(QaProfile.d, "education") = JList(<<>>)
    /\ qa.completeness = 500

\* total_experience_years of the profile, in hundredths, 0 when left out
QaYears == Hundredths(DictGetOr(QaProfile.d, "total_experience_years", JInt(0)))

\* C13: for a profile object with y years the level is entry for y < 2,
\* junior for 2 <= y < 5, mid for 5 <= y < 10, senior for y >= 10; unknown
\* for anything that is no object; every input gets one of the five levels.
C13_ExperienceLevelBuckets ==
    qa.done =>
        /\ qa.level \in {"entry", "junior", "mid", "senior", "unknown"}
        /\ qa.level = "unknown" <=> QaProfile.tag # "dict"
        /\ QaProfile.tag = "dict" =>
              /\ qa.level = "entry" <=> QaYears < 200
              /\ qa.level = "junior" <=> (200 <= QaYears /\ QaYears < 500)
              /\ qa.level = "mid" <=> (500 <= QaYears /\ QaYears < 1000)
              /\ qa.level = "senior" <=> QaYears >= 1000
        /\ qa.analytics.k = "ok" => qa.analytics.experience_level = qa.level

\* C13 witness: exactly 10.0 years were assessed as senior
C13_Witness ==
    /\ qa.done
    /\ QaProfile.tag = "dict"
    /\ DictHas(QaProfile.d, "total_experience_years")
    /\ DictGet(QaProfile.d, "total_experience_years") = JFloat(1000)
    /\ qa.level = "senior"

\* alternative_roles of the recommendation, [] when left out
QaAlternatives == DictGetOr(QaCareer.d, "alternative_roles", JList(<<>>))

\* C14 (as claimed): recommendations_count is 0 when the recommendation is
\* no object, 1 + the number of alternative roles when alternative_roles is
\* a non-empty list, and 1 in every other case.
C14_RecommendationsCount ==
    qa.done =>
        qa.count = Ret(IntText(
            IF QaCareer.tag # "dict" THEN 0
            ELSE IF QaAlternatives.ty = "list" /\ QaAlternatives.xs # <<>>
            THEN 1 + Len(QaAlternatives.xs)
            ELSE 1))

\* C15 (as claimed): the confidence_score of a normalized recommendation and
\* the confidence quick analytics reports lie in 0.0 .. 1.0 (0 .. 100 in
\* hundredths), whatever the model supplied.
C15_ConfidenceWithinUnitInterval ==
    qa.done =>
        /\ (QaCareer.tag = "dict" /\ DictHas(QaCareer.d, "confidence_score")) =>
               /\ DictGet(QaCareer.d, "confidence_score").ty \in {"int", "float"}
               /\ 0 <= Hundredths(DictGet(QaCareer.d, "confidence_score"))
               /\ Hundredths(DictGet(QaCareer.d, "confidence_score")) <= 100
        /\ qa.confidence.ty \in {"int", "float"}
        /\ 0 <= Hundredths(qa.confidence) /\ Hundredths(qa.confidence) <= 100

(***************************************************************************)
(* Properties of the lighter entry points (checked under SpecEntry).       *)
(***************************************************************************)
\* the entry point has handed its caller a dict
EntryReturned(entry) == ep.entry = entry /\ ep.pc = "returned"

\* stage 2 returned the profile tool's error text
Stage2ReturnedSentinel ==
    /\ ep.stages[2].out.k = "ret"
    /\ IsPrefix(<<ErrorPrefix("profile")>>, ep.stages[2].out.text)

\* C16 (as claimed): quick_career_recommendation invokes stage 2 and then
\* stage 3 and no other; it returns success = False with an error, stage 3
\* not invoked, exactly when stage 2 returned the extraction-error text, and
\* otherwise success = True with the profile and the recommendation.
C16_QuickFailsFastOnSentinelOnly ==
    EntryReturned("quick") =>
        /\ IsPrefix(ep.calls, <<2, 3>>)
        /\ IF Stage2ReturnedSentinel
           THEN /\ ~ep.result.success
                /\ ep.result.error # <<>>
                /\ ep.calls = <<2>>
           ELSE /\ ep.result.success
                /\ ep.calls = <<2, 3>>
                /\ {"profile_summary", "career_recommendation"} \subseteq ep.result.keys

\* t holds part as a run of consecutive characters
Embeds(t, part) ==
    \E i \in 1..(Len(t) - Len(part) + 1) : SubSeq(t, i, i + Len(part) - 1) = part

\* C17: generate_targeted_questions invokes stage 4 once, with a prompt that
\* holds the profile text, the target role, the difficulty and the requested
\* number of questions, and invokes none of stages 1, 2, 3.
C17_TargetedRunsStage4Once ==
    /\ ep.entry = "targeted" => IsPrefix(ep.calls, <<4>>)
    /\ EntryReturned("targeted") =>
          /\ ep.calls = <<4>>
          /\ \A n \in 1..3 : ~ep.stages[n].called
          /\ Embeds(ep.stages[4].input, ep.profile_data)
          /\ Embeds(ep.stages[4].input, <<Word(ep.target_role)>>)
          /\ Embeds(ep.stages[4].input, <<Word(ep.difficulty_level)>>)
          /\ Embeds(ep.stages[4].input, <<Word(ToString(ep.question_count))>>)

\* C17 witness: a call asking for 5 questions returned the questions
C17_Witness ==
    /\ EntryReturned("targeted")
    /\ ep.question_count = 5
    /\ ep.result.success
    /\ ep.result.questions.tag = "dict"

(***************************************************************************)
(* Properties of AnalyticsService (checked under SpecService).             *)
(***************************************************************************)
\* a rate of the statistics in hundredths, 0 when it is missing
RateOf(stats, key) == IF DictHas(stats, key) THEN Hundredths(DictGet(stats, key)) ELSE 0

\* C18: the summary's health_score is (success_rate + completion_rate) / 2
\* to one decimal, a missing rate counting as 0: in tenths, it is within half
\* a tenth of the mean; 95.0 and 85.0 give 90.0.
C18_HealthScoreIsMeanOfRates ==
    svc.op = "summary" =>
        LET q == RateOf(svc.cv_stats, "success_rate") + RateOf(svc.interview_stats, "completion_rate")
        IN /\ 20 * svc.summary.health_score - q <= 10
           /\ q - 20 * svc.summary.health_score <= 10
           /\ (/\ RateOf(svc.cv_stats, "success_rate") = 9500
               /\ RateOf(svc.interview_stats, "completion_rate") = 8500)
                  => svc.summary.health_score = 900

\* C18 witness: rates of 95.0 and 85.0 were summarised as 90.0
C18_Witness ==
    /\ svc.op = "summary"
    /\ DictHas(svc.cv_stats, "success_rate")
    /\ DictGet(svc.cv_stats, "success_rate") = JFloat(9500)
    /\ DictHas(svc.interview_stats, "completion_rate")
    /\ DictGet(svc.interview_stats, "completion_rate") = JFloat(8500)
    /\ svc.summary.health_score = 900

\* a skill's count in a month of the grouping, 0 when the month has none
SkillCount(monthly, m, sk) ==
    IF \E t \in monthly.counts : t[1] = m /\ t[2] = sk
    THEN (CHOOSE t \in monthly.counts : t[1] = m /\ t[2] = sk)[3]
    ELSE 0

\* "YYYY-MM" keys order as their months do
MonthBefore(a, b) ==
    \/ (a = "2024-01" /\ b \in {"2024-02", "2024-03"})
    \/ (a = "2024-02" /\ b = "2024-03")

\* the latest of a set of months
LatestMonth(months) == CHOOSE m \in months : \A o \in months \ {m} : MonthBefore(o, m)

\* C19 (as claimed): _get_skill_trends returns the monthly grouping with a
\* skill trending up exactly when its count in the most recent month exceeds
\* its count in the month before, trending down exactly when it is less, and
\* no skill in both lists.
C19_SkillTrendsCompareLastTwoMonths ==
    svc.op = "skill_trends" =>
        /\ svc.out.k = "ret"
        /\ svc.trending_up \cap svc.trending_down = {}
        /\ Cardinality(svc.monthly_skills.months) >= 2 =>
              \A sk \in {t[2] : t \in svc.monthly_skills.counts} :
                 LET recent == LatestMonth(svc.monthly_skills.months)
                     before == LatestMonth(svc.monthly_skills.months \ {recent})
                     latest == SkillCount(svc.monthly_skills, recent, sk)
                     previous == SkillCount(svc.monthly_skills, before, sk)
                 IN /\ sk \in svc.trending_up <=> latest > previous
                    /\ sk \in svc.trending_down <=> latest < previous

\* C20 (as claimed): get_career_analytics returns a confidence distribution
\* whose high, medium and low counts add up to the number of scores
\* collected, high counting the scores >= 0.8 and low those < 0.5.
C20_ConfidenceBucketsPartitionScores ==
    svc.op = "career_analytics" =>
        /\ svc.out.k = "ret"
        /\ svc.confidence_distribution.high + svc.confidence_distribution.medium
              + svc.confidence_distribution.low = Len(svc.confidence_scores)
        /\ svc.confidence_distribution.high
              = Cardinality({i \in 1..Len(svc.confidence_scores) : svc.confidence_scores[i] >= 80})
        /\ svc.confidence_distribution.low
              = Cardinality({i \in 1..Len(svc.confidence_scores) : svc.confidence_scores[i] < 50})

(***************************************************************************)
(* Properties of AnalyticsService on a store (checked under SpecStore).    *)
(***************************************************************************)
\* C21 (as claimed): every call of get_skill_analytics returns the top-skills
\* ranking and the category table that the rows of the store determine (at
\* most 20 lower-cased skills by falling frequency, equal frequencies in
\* the order of first mention), so that two calls against an unchanged
\* store return the same ranking and the same table.
C21_SkillAnalyticsStable ==
    agg.op = "skill_analytics" =>
        /\ agg.out.k = "ret"
        /\ Len(agg.top_skills) <= 20
        /\ agg.top_skills = TopSkills(agg.records)
        /\ agg.skill_categories = SkillCategories(agg.records)

\* the call of generate_cv_insights was for an id no row of the store has
MissingRecord == agg.cv_analysis_id \notin 1..Len(agg.records)

C23_MalformedFieldsCountAsEmpty ==
    (agg.op = "cv_insights" /\ ~MissingRecord) => agg.out.k = "ret"

\* C26: no step of an aggregator method changes the store, and between calls
\* the aggregator holds nothing.
C26_AggregatorReadOnly ==
    [][(agg' # agg) => (db' = db /\ (agg'.op = "none" => agg' = AggIdle))]_vars

\* C26 witness: career analytics has run over a store of two rows and a
\* session
C26_Witness ==
    /\ agg.op = "career_analytics"
    /\ Len(db.cv_analyses) >= 2
    /\ Len(db.interview_sessions) >= 1
    /\ agg.records = db.cv_analyses

\* the durations of the rows whose processing_time is not null, in hundredths
NonNullDurations(cv_analyses) ==
    LET kept == SelectSeq(cv_analyses, LAMBDA cv : cv.processing_time.ty # "null")
    IN [i \in 1..Len(kept) |-> Hundredths(kept[i].processing_time)]

\* C28 (as claimed): the mean processing time of the CV statistics is the
\* mean of the durations of the rows whose duration is not null, a duration
\* of 0 included; the success rate is completed / total * 100, and 0 for no
\* row.
C28_MeanOverNonNullDurations ==
    agg.op = "dashboard" =>
        /\ NonNullDurations(agg.records) # <<>> =>
               /\ agg.cv_stats.average_processing_time.k = "number"
               /\ agg.cv_stats.average_processing_time.n
                      \in RoundedQuotients(Sum(NonNullDurations(agg.records)),
                                           Len(NonNullDurations(agg.records)))
        /\ agg.records # <<>> =>
               agg.cv_stats.success_rate.num * Len(agg.records)
                   = 100 * agg.cv_stats.successful_analyses * agg.cv_stats.success_rate.den
        /\ agg.records = <<>> => agg.cv_stats.success_rate.num = 0

Alone(d, gens) ==
    LET raw == ConvertPdfSync(d)
        out(i) == ToolRun(StageVariant(i + 1), gens[i], log_level)
    IN IF TextHasError(raw) THEN ProcessExcept(ExtractionFailed(raw))
       ELSE IF Len(gens) < 1 THEN NoResults
       ELSE IF out(1).k # "ret" THEN ProcessExcept(out(1))
       ELSE IF Len(gens) < 2 THEN NoResults
       ELSE IF out(2).k # "ret" THEN ProcessExcept(out(2))
       ELSE IF Len(gens) < 3 THEN NoResults
       ELSE IF out(3).k # "ret" THEN ProcessExcept(out(3))
       ELSE CompletedResults(raw, out(1).text, out(2).text, out(3).text)

\* C25: under every interleaving of the requests' steps, a request that has
\* returned holds the result the method gives alone on its own document and
\* its own model responses, whatever the other requests did or returned.
C25_RunsIndependent ==
    \A r \in RunIds :
        runs[r].pc = "returned" => runs[r].results = Alone(runs[r].doc, runs[r].gens)

\* C25 witness: two requests whose steps interleaved have both returned, the
\* first failed and the second completed
C25_Witness ==
    /\ runs["a"].pc = "returned"
    /\ runs["b"].pc = "returned"
    /\ runs["a"].results.status = "failed"
    /\ runs["b"].results.status = "completed"
    /\ "b" \in runs["a"].seen
    /\ "a" \in runs["b"].seen

====
